---- MODULE Spec2Model ----
(***************************************************************************)
(* TRL Reporter: the ledger engine (utils.update_observation), the remote  *)
(* store's ledger write with conflict retry                                *)
(* (GoogleDriveFolder.update_csv_from_df_retry) and the submit handler of  *)
(* "TRL_Uploader - 2.py", modelled as state machines.                      *)
(*                                                                         *)
(* Strings the code builds by concatenation or rewrites with a regular     *)
(* expression (emails, folder names, file names) are sequences of          *)
(* one-character strings, so that the rewriting is computed, not assumed.  *)
(***************************************************************************)
EXTENDS Integers, Sequences, FiniteSets, TLC

\* ------------------------------------------------------------------ bounds

\* Calls of update_observation made in a row by the ledger harness.
MaxCalls == 2

\* Files named workListFile.csv the destination folder may hold at once.
MaxCopies == 2

\* Files attached to one submission.
MaxFiles == 2

\* Calls of one store operation made on the same arguments.
MaxWriters == 2

\* Text blocks on one page.
MaxBlocks == 5

\* ------------------------------------------------------- values and inputs

EmailAB == <<"a", ".", "b", "@", "x", ".", "y">>
EmailAb == <<"a", "b", "@", "x", ".", "y">>
EmailC == <<"c", "@", "x", ".", "y">>

\* Emails that submit; the first two differ only in a non-alphanumeric
\* character of the local part.
Emails == {EmailAB, EmailAb, EmailC}

\* Names of the uploaded PDF files (file.name).
FileNames == {<<"p">>, <<"q">>}

Alnum == {"a", "b", "c", "p", "q", "x", "y", "0", "1"}

\* The decision tags update_observation returns.
Denied == "Negado: Servicio ya provisto."

AcceptedOverwrite == "Aceptado: Sobre-Escritura."

AcceptedNew == "Aceptado: Nuevo Registro."

\* Values of the ledger's status column; "Failed" stands for any value that is
\* neither Ready nor Process.
Statuses == {"Process", "Ready", "Failed"}

\* email.split('@')[0]
LocalPart(email) ==
    LET at == CHOOSE i \in 1..(Len(email) + 1) :
                  /\ (i <= Len(email) => email[i] = "@")
                  /\ \A j \in 1..(i - 1) : email[j] # "@"
    IN SubSeq(email, 1, at - 1)

\* name = re.sub(r'[^a-zA-Z0-9]', '', email.split('@')[0])
UserName(email) == SelectSeq(LocalPart(email), LAMBDA ch : ch \in Alnum)

\* final_filename = f"{name}_{file.name}"
FinalFilename(name, fname) == name \o <<"_">> \o fname

\* txt_filename = f"{final_filename}.txt"
TxtFilename(name, fname) == FinalFilename(name, fname) \o <<".", "t", "x", "t">>

\* Candidate artifact names handed to the ledger engine.
CandidateNames == {TxtFilename(UserName(EmailC), f) : f \in FileNames}

\* A ledger row.
Record(file_name, email, status) ==
    [file_name |-> file_name, email |-> email, status |-> status]

\* df[df['email'] == email]
RowsOf(df, email) == SelectSeq(df, LAMBDA r : r.email = email)

\* At most one row per distinct email.
UniqueEmails(df) ==
    \A i, j \in 1..Len(df) : df[i].email = df[j].email => i = j

\* Sequences over S without repetition, of every length.
RECURSIVE Arrangements(_)
Arrangements(S) ==
    IF S = {} THEN {<<>>}
    ELSE {<<>>} \cup UNION {{<<x>> \o t : t \in Arrangements(S \ {x})} : x \in S}

\* The ledgers of the data model over the given names and statuses: every
\* order, every subset of the emails, one row per email.
RECURSIVE RowsFor(_, _, _)
RowsFor(es, names, sts) ==
    IF es = <<>> THEN {<<>>}
    ELSE {<<Record(n, es[1], s)>> \o t :
              n \in names, s \in sts, t \in RowsFor(Tail(es), names, sts)}

Ledgers(names, sts) ==
    UNION {RowsFor(es, names, sts) : es \in Arrangements(Emails)}

\* ------------------------------------------------------------ ledger engine

\* Faulty variant: the Ready check is dropped, any existing row is overwritten.
update_observation_no_ready_check(df, file_name, email) ==
    IF RowsOf(df, email) # <<>>
    THEN LET m == [i \in 1..Len(df) |->
                      IF df[i].email = email
                      THEN Record(file_name, email, "Process") ELSE df[i]]
         IN [status |-> AcceptedOverwrite, df |-> m, arg |-> m]
    ELSE [status |-> AcceptedNew,
          df |-> Append(df, Record(file_name, email, "Process")),
          arg |-> df]

\* Faulty variant: the new row is put first instead of last.
update_observation_prepend(df, file_name, email) ==
    IF RowsOf(df, email) # <<>> /\ RowsOf(df, email)[1].status = "Ready"
    THEN [status |-> Denied, df |-> df, arg |-> df]
    ELSE IF RowsOf(df, email) # <<>>
    THEN LET m == [i \in 1..Len(df) |->
                      IF df[i].email = email
                      THEN Record(file_name, email, "Process") ELSE df[i]]
         IN [status |-> AcceptedOverwrite, df |-> m, arg |-> m]
    ELSE [status |-> AcceptedNew,
          df |-> <<Record(file_name, email, "Process")>> \o df,
          arg |-> df]

\* Faulty variant: an overwrite keeps the row's status instead of resetting it.
update_observation_keep_status(df, file_name, email) ==
    IF RowsOf(df, email) # <<>> /\ RowsOf(df, email)[1].status = "Ready"
    THEN [status |-> Denied, df |-> df, arg |-> df]
    ELSE IF RowsOf(df, email) # <<>>
    THEN LET m == [i \in 1..Len(df) |->
                      IF df[i].email = email
                      THEN [df[i] EXCEPT !.file_name = file_name] ELSE df[i]]
         IN [status |-> AcceptedOverwrite, df |-> m, arg |-> m]
    ELSE [status |-> AcceptedNew,
          df |-> Append(df, Record(file_name, email, "Process")),
          arg |-> df]

\* Faulty variant: an existing row is not looked up, a row is always appended.
update_observation_always_append(df, file_name, email) ==
    IF RowsOf(df, email) # <<>> /\ RowsOf(df, email)[1].status = "Ready"
    THEN [status |-> Denied, df |-> df, arg |-> df]
    ELSE [status |-> AcceptedNew,
          df |-> Append(df, Record(file_name, email, "Process")),
          arg |-> df]

\* update_observation(df, file_name, email) -> (status, df).  The result's
\* "df" is the returned frame; "arg" is what the frame object passed in by
\* the caller holds once the call has returned: Denied returns that object
\* untouched, the overwrite assigns through df.loc into that object and
\* returns it, the new record is put in a fresh frame built by pd.concat.
update_observation(df, file_name, email) ==
    IF RowsOf(df, email) # <<>> /\ RowsOf(df, email)[1].status = "Ready"
    THEN [status |-> Denied, df |-> df, arg |-> df]
    ELSE IF RowsOf(df, email) # <<>>
    THEN LET m == [i \in 1..Len(df) |->
                      IF df[i].email = email
                      THEN [df[i] EXCEPT !.file_name = file_name,
                                         !.status = "Process"]
                      ELSE df[i]]
         IN [status |-> AcceptedOverwrite, df |-> m, arg |-> m]
    ELSE [status |-> AcceptedNew,
          df |-> Append(df, Record(file_name, email, "Process")),
          arg |-> df]

\* -------------------------------------------------------------------- state

VARIABLES
    \* the caller of update_observation
    workListFile,   \* the caller's ledger variable
    status,         \* the decision of the last update_observation call
    before,         \* the ledger passed to the last call, as it was before it
    passed,         \* what the frame object passed to the last call holds now
    lastEmail,      \* the email of the last call
    lastName,       \* the candidate name of the last call
    prevStatus,     \* the decision of the call before the last
    prevEmail,      \* the email of the call before the last
    nCalls,         \* calls made so far
    \* the remote store
    drive,          \* id -> [parent, title, mime, content], the stored objects
    nextId,         \* the id the store gives the next object it creates
    \* update_csv_from_df_retry
    csv_pc,         \* position in the call
    csv_df,         \* the frame being written
    existing_files, \* the listing of the destination (ids, in listing order)
    retry_count,    \* retry_count
    csv_log,        \* the uploads, sleeps and refreshes made, in order
    csv_result,     \* the id returned, or the exception raised
    \* the submit handler
    pc,             \* position in the handler
    form_email,     \* email: the email typed in
    form_password,  \* password: the password typed in
    form_files,     \* files: the names of the files attached, in order
    file_idx,       \* the index of the file the loop is at
    user_folder_id, \* the user's folder under DocsOrig
    user_folder_txts, \* the user's folder under DocsToProcess
    listing,        \* the files listed by the upload under way
    file_id,        \* what upload_file returned for the current file (0: None)
    successful_uploads, \* successful_uploads
    finished,       \* how the submission ended: "ok", "invalid", or the
                    \* exception the except clause reported
    shown,          \* per file, the message shown: "denied" or "success"
    stored,         \* per file marked successful: were PDF and text stored
    readRow,        \* the status of the email's row when the ledger was read
    drive0,         \* the store when the submission began
    ledgerWrites,   \* calls of update_csv_from_df_retry the submission made
    \* calls of the store's operations made on their own
    op_pc,          \* per call, its position
    op_listing,     \* per call, the listing it got (ids, in listing order)
    op_result,      \* per call, what it returned
    \* a submission made again
    run,            \* 1 for the first run of the submission, 2 for the second
    run1,           \* how the first run ended and the store it left
    \* the reading order of one page in extract_text_and_upload
    col_pc,         \* position in the page's processing
    page,           \* the blocks of the page
    text_blocks,    \* text_blocks: the blocks in the order the PDF gives them
    block_data,     \* block_data: the blocks sorted by top coordinate
    columns,        \* the clusters of block_data's positions formed so far
    ordered_text,   \* ordered_text
    s_pc,           \* per concurrent session, the position of its handler
    s_email,        \* per session, the email of its form
    s_file,         \* per session, the name of the file of its form
    s_df,           \* per session, workListFile
    s_orig,         \* per session, user_folder_id
    s_txts,         \* per session, user_folder_txts
    s_listing,      \* per session, existing_files of the call under way
    s_retry,        \* per session, retry_count
    s_success,      \* per session, successful_uploads
    s_end,          \* per session, "none", "ok" or the exception reported
    a_pc,           \* the position of the script run in its start-up
    attempt,        \* attempt of authenticate_with_retries
    a_log,          \* the attempts, warnings, sleeps and errors of the start-up
    gdrive,         \* "gdrive" in st.session_state
    handled         \* the rest of the script ran and processed a submission

ledgerVars == <<workListFile, status, before, passed, lastEmail, lastName,
                prevStatus, prevEmail, nCalls>>

storeVars == <<drive, nextId>>

csvVars == <<csv_pc, csv_df, existing_files, retry_count, csv_log, csv_result>>

handlerVars == <<pc, form_email, form_password, form_files, file_idx,
                 user_folder_id, user_folder_txts, listing, file_id,
                 successful_uploads, finished, shown, stored, readRow, drive0,
                 ledgerWrites>>

callVars == <<op_pc, op_listing, op_result>>

runVars == <<run, run1>>

pageVars == <<col_pc, page, text_blocks, block_data, columns, ordered_text>>

authVars == <<a_pc, attempt, a_log, gdrive, handled>>

sessVars == <<s_pc, s_email, s_file, s_df, s_orig, s_txts, s_listing, s_retry,
              s_success, s_end>>

vars == <<ledgerVars, storeVars, csvVars, handlerVars, callVars, runVars, pageVars, sessVars, authVars>>

\* --------------------------------------------------------- the remote store

\* FOLDER_ID["DocsOrig_id"] and FOLDER_ID["DocsToProcess_id"]: the handles of
\* the two root folders.
DocsOrig_id == 1

DocsToProcess_id == 2

\* The first id the store hands out.
FirstId == 3

\* "workListFile.csv"
LedgerFileName ==
    <<"w", "o", "r", "k", "L", "i", "s", "t", "F", "i", "l", "e",
      ".", "c", "s", "v">>

FolderMime == "application/vnd.google-apps.folder"

\* The content types read_csv_from_drive accepts.
CsvMimes == {"text/csv", "application/vnd.ms-excel"}

\* A stored object.
Obj(parent, title, mime, content) ==
    [parent |-> parent, title |-> title, mime |-> mime, content |-> content]

\* Faulty variant: the query leaves the title out.
FilesNamed_any_title(d, title, folder_id) ==
    {i \in DOMAIN d : d[i].parent = folder_id /\ d[i].mime # FolderMime}

\* ListFile with "title = '<t>' and mimeType != folder and '<f>' in parents".
FilesNamed(d, title, folder_id) ==
    {i \in DOMAIN d : /\ d[i].parent = folder_id
                      /\ d[i].title = title
                      /\ d[i].mime # FolderMime}

\* The orders in which the store may list a set of objects.
Listings(ids) == {l \in Arrangements(ids) : Len(l) = Cardinality(ids)}

\* Faulty variant: Delete() leaves the object in place.
Without_keeps_all(d, ids) == d

\* The store without the objects in ids.
Without(d, ids) == [i \in DOMAIN d \ ids |-> d[i]]

\* ------------------------------------------------- update_csv_from_df_retry

max_retries == 3

\* Faulty variant: the loop runs while retry_count <= max_retries.
RetryAllowed_off_by_one(n) == n <= max_retries

\* while retry_count < max_retries
RetryAllowed(n) == n < max_retries

\* Faulty variant: the wait is computed before retry_count is incremented.
wait_time_before_increment(n) == 2 ^ (n - 1)

\* wait_time = 2 ** retry_count
wait_time(n) == 2 ^ n

\* The outcomes of one file.Upload(): done, refused with a message holding
\* "conflict", refused with another error.
UploadOutcomes == {"ok", "conflict", "error"}

\* Faulty variant: every refused upload is taken for a conflict.
IsConflict_any_error(outcome) == outcome # "ok"

\* "conflict" in str(e).lower()
IsConflict(outcome) == outcome = "conflict"

\* How a call ends: the id it returns, or the exception it raises.
Returned(id) == [id |-> id, exc |-> "none"]

Raised(exc) == [id |-> 0, exc |-> exc]

NoResult == [id |-> 0, exc |-> "none"]

Logged(op, res, t) == [op |-> op, res |-> res, t |-> t]

\* The entries of the log made by the given operation.
LogOf(op) == SelectSeq(csv_log, LAMBDA x : x.op = op)

\* existing_files = self.drive.ListFile({'q': query}).GetList()
CsvList ==
    /\ csv_pc = "list"
    /\ \E l \in Listings(FilesNamed(drive, LedgerFileName, DocsToProcess_id)) :
           existing_files' = l
    /\ retry_count' = 0
    /\ csv_pc' = IF existing_files' # <<>> THEN "upload" ELSE "create"
    /\ UNCHANGED <<csv_df, csv_log, csv_result, storeVars, ledgerVars, handlerVars, callVars, runVars, pageVars, sessVars, authVars>>

\* file.SetContentFile(temp_file_path); file.Upload() inside the retry loop,
\* with the except branch up to the computation of wait_time.
CsvUpload(outcome) ==
    /\ csv_pc = "upload"
    /\ RetryAllowed(retry_count)
    /\ csv_log' = Append(csv_log, Logged("upload", outcome, 0))
    /\ IF outcome = "ok"
       THEN /\ drive' = [drive EXCEPT ![existing_files[1]].content = csv_df]
            /\ csv_pc' = "dedupe"
            /\ UNCHANGED <<retry_count, csv_result>>
       ELSE IF IsConflict(outcome)
       THEN /\ retry_count' = retry_count + 1
            /\ csv_pc' = "sleep"
            /\ UNCHANGED <<drive, csv_result>>
       ELSE /\ csv_pc' = "raised"
            /\ csv_result' = Raised("Error")
            /\ UNCHANGED <<drive, retry_count>>
    /\ UNCHANGED <<csv_df, existing_files, nextId, ledgerVars, handlerVars, callVars, runVars, pageVars, sessVars, authVars>>

\* time.sleep(wait_time)
CsvSleep ==
    /\ csv_pc = "sleep"
    /\ csv_log' = Append(csv_log, Logged("sleep", "ok", wait_time(retry_count)))
    /\ csv_pc' = "fetch"
    /\ UNCHANGED <<csv_df, existing_files, retry_count, csv_result,
                   storeVars, ledgerVars, handlerVars, callVars, runVars, pageVars, sessVars, authVars>>

\* file.FetchMetadata(); continue
CsvFetchMetadata ==
    /\ csv_pc = "fetch"
    /\ csv_log' = Append(csv_log, Logged("fetch", "ok", 0))
    /\ csv_pc' = "upload"
    /\ UNCHANGED <<csv_df, existing_files, retry_count, csv_result,
                   storeVars, ledgerVars, handlerVars, callVars, runVars, pageVars, sessVars, authVars>>

\* The while loop's else: raise Exception("Max retries reached. ...")
CsvMaxRetries ==
    /\ csv_pc = "upload"
    /\ ~RetryAllowed(retry_count)
    /\ csv_pc' = "raised"
    /\ csv_result' = Raised("MaxRetries")
    /\ UNCHANGED <<csv_df, existing_files, retry_count, csv_log,
                   storeVars, ledgerVars, handlerVars, callVars, runVars, pageVars, sessVars, authVars>>

\* Faulty variant: every listed file is removed, the updated one included.
Duplicates_all(l) == {l[i] : i \in 1..Len(l)}

\* existing_files[1:]
Duplicates(l) == {l[i] : i \in 2..Len(l)}

\* for duplicate in existing_files[1:]: duplicate.Delete(); return file['id']
CsvDedupe ==
    /\ csv_pc = "dedupe"
    /\ drive' = Without(drive, Duplicates(existing_files))
    /\ csv_pc' = "returned"
    /\ csv_result' = Returned(existing_files[1])
    /\ UNCHANGED <<csv_df, existing_files, retry_count, csv_log, nextId,
                   ledgerVars, handlerVars, callVars, runVars, pageVars, sessVars, authVars>>

\* The destination does not exist: CreateFile, SetContentFile, Upload, return.
CsvCreate(outcome) ==
    /\ csv_pc = "create"
    /\ IF outcome = "ok"
       THEN /\ drive' = (nextId :> Obj(DocsToProcess_id, LedgerFileName,
                                       "text/csv", csv_df)) @@ drive
            /\ nextId' = nextId + 1
            /\ csv_pc' = "returned"
            /\ csv_result' = Returned(nextId)
       ELSE /\ csv_pc' = "raised"
            /\ csv_result' = Raised("Error")
            /\ UNCHANGED storeVars
    /\ UNCHANGED <<csv_df, existing_files, retry_count, csv_log, ledgerVars,
                   handlerVars, callVars, runVars, pageVars, sessVars, authVars>>

CsvStep ==
    \/ CsvList
    \/ \E outcome \in UploadOutcomes : CsvUpload(outcome)
    \/ CsvSleep
    \/ CsvFetchMetadata
    \/ CsvMaxRetries
    \/ CsvDedupe

\* No update_csv_from_df_retry call is under way.
CsvIdle ==
    /\ csv_pc = "idle"
    /\ csv_df = <<>>
    /\ existing_files = <<>>
    /\ retry_count = 0
    /\ csv_log = <<>>
    /\ csv_result = NoResult

\* No caller of update_observation.
LedgerIdle ==
    /\ workListFile = <<>>
    /\ status = "none"
    /\ before = <<>>
    /\ passed = <<>>
    /\ lastEmail = <<>>
    /\ lastName = <<>>
    /\ prevStatus = "none"
    /\ prevEmail = <<>>
    /\ nCalls = 0

\* No submission.
HandlerIdle ==
    /\ pc = "idle"
    /\ form_email = <<>>
    /\ form_password = "none"
    /\ form_files = <<>>
    /\ file_idx = 0
    /\ user_folder_id = 0
    /\ user_folder_txts = 0
    /\ listing = {}
    /\ file_id = 0
    /\ successful_uploads = FALSE
    /\ finished = "none"
    /\ shown = <<>>
    /\ stored = <<>>
    /\ readRow = "none"
    /\ drive0 = drive
    /\ ledgerWrites = 0

\* The calls of a store operation made on their own.
Calls == 1..MaxWriters

\* No such call.
CallsIdle ==
    /\ op_pc = [c \in Calls |-> "idle"]
    /\ op_listing = [c \in Calls |-> <<>>]
    /\ op_result = [c \in Calls |-> NoResult]

\* The two root folders, empty.
EmptyDrive == [i \in {} |-> Obj(0, <<>>, FolderMime, <<>>)]

\* The root folder DocsToProcess holding n files named workListFile.csv, each
\* with the given ledger.
DriveWithLedgers(n, df) ==
    [i \in FirstId..(FirstId + n - 1) |->
        Obj(DocsToProcess_id, LedgerFileName, "text/csv", df)]

\* What is known of a first run before it has ended.
NoRun == [drive |-> EmptyDrive, finished |-> "none", shown |-> <<>>,
          stored |-> <<>>]

\* A submission in its first run.
RunIdle ==
    /\ run = 1
    /\ run1 = NoRun

\* No page is being put in reading order.
PageIdle ==
    /\ col_pc = "idle"
    /\ page = <<>>
    /\ text_blocks = <<>>
    /\ block_data = <<>>
    /\ columns = {}
    /\ ordered_text = <<>>

\* No script run at its start-up.
AuthIdle ==
    /\ a_pc = "idle"
    /\ attempt = 0
    /\ a_log = <<>>
    /\ gdrive = FALSE
    /\ handled = FALSE

\* The sessions that submit at the same time.
Sessions == {1, 2}

\* No concurrent session.
SessIdle ==
    /\ s_pc = [s \in Sessions |-> "idle"]
    /\ s_email = [s \in Sessions |-> <<>>]
    /\ s_file = [s \in Sessions |-> <<>>]
    /\ s_df = [s \in Sessions |-> <<>>]
    /\ s_orig = [s \in Sessions |-> 0]
    /\ s_txts = [s \in Sessions |-> 0]
    /\ s_listing = [s \in Sessions |-> <<>>]
    /\ s_retry = [s \in Sessions |-> 0]
    /\ s_success = [s \in Sessions |-> FALSE]
    /\ s_end = [s \in Sessions |-> "none"]

\* One call update_csv_from_df_retry(df, "workListFile.csv", DocsToProcess_id)
\* on a destination holding 0..MaxCopies files of that name.
InitRetry ==
    /\ LedgerIdle
    /\ \E n \in 0..MaxCopies :
           /\ drive = DriveWithLedgers(n, <<>>)
           /\ nextId = FirstId + n
    /\ HandlerIdle
    /\ CallsIdle
    /\ RunIdle
    /\ PageIdle
    /\ SessIdle
    /\ AuthIdle
    /\ csv_pc = "list"
    /\ csv_df \in Ledgers({TxtFilename(UserName(EmailC), <<"p">>)},
                          {"Process", "Ready"})
    /\ existing_files = <<>>
    /\ retry_count = 0
    /\ csv_log = <<>>
    /\ csv_result = NoResult

NextRetry ==
    \/ CsvStep
    \/ \E outcome \in {"ok", "error"} : CsvCreate(outcome)

SpecRetry == InitRetry /\ [][NextRetry]_vars

\* ------------------------------------------------------------ store calls

\* Faulty variant: the query leaves the content type out.
FoldersNamed_any_mime(d, title, parent) ==
    {i \in DOMAIN d : d[i].parent = parent /\ d[i].title = title}

\* ListFile with "'<p>' in parents and title = '<t>' and mimeType = folder".
FoldersNamed(d, title, parent) ==
    {i \in DOMAIN d : /\ d[i].parent = parent
                      /\ d[i].title = title
                      /\ d[i].mime = FolderMime}

\* delete_user_folder_if_exists(parent, name): the folders named name directly
\* under parent are removed with what they hold; none existing is no error.
delete_user_folder_if_exists(d, parent, name) ==
    LET gone == FoldersNamed(d, name, parent)
    IN Without(d, gone \cup {i \in DOMAIN d : d[i].parent \in gone})

\* Faulty variant: the content type of the file is not looked at.
read_csv_from_drive_any_mime(d, l, file_name) ==
    LET hits == SelectSeq(l, LAMBDA i : d[i].title = file_name)
    IN IF l = <<>> \/ hits = <<>>
       THEN [none |-> TRUE, df |-> <<>>]
       ELSE [none |-> FALSE, df |-> d[hits[1]].content]

\* read_csv_from_drive(file_name, folder_id), the listing being l: None when
\* the folder lists nothing or holds no file of that name with a CSV content
\* type, else the frame parsed from the first such file of the listing.  The
\* stored content is the table df.to_csv(index=False) wrote: the header and
\* the rows, which pd.read_csv gives back.
read_csv_from_drive(d, l, file_name) ==
    LET hits == SelectSeq(l, LAMBDA i : /\ d[i].title = file_name
                                        /\ d[i].mime \in CsvMimes)
    IN IF l = <<>> \/ hits = <<>>
       THEN [none |-> TRUE, df |-> <<>>]
       ELSE [none |-> FALSE, df |-> d[hits[1]].content]

\* list_files_in_shared_drive(folder_id): "'<folder_id>' in parents"
ChildrenOf(d, folder_id) == {i \in DOMAIN d : d[i].parent = folder_id}

\* ------------------------------------------------------- the submit handler

\* The shared secret st.secrets["app"]["password"].
PASSWORD == "secret"

LocalChars == Alnum \cup {"_", ".", "+", "-"}

DomainChars == Alnum \cup {"-"}

\* re.match(r'^[a-zA-Z0-9_.+-]+@[a-zA-Z0-9-]+\.[a-zA-Z0-9-.]+$', email)
is_valid_email(email) ==
    \E at \in 2..Len(email), dot \in 3..Len(email) :
        /\ at + 1 < dot
        /\ dot < Len(email)
        /\ email[at] = "@"
        /\ email[dot] = "."
        /\ \A k \in 1..(at - 1) : email[k] \in LocalChars
        /\ \A k \in (at + 1)..(dot - 1) : email[k] \in DomainChars
        /\ \A k \in (dot + 1)..Len(email) : email[k] \in DomainChars \cup {"."}

\* password == real
is_valid_password(password, real) == password = real

\* Faulty variant: the password is not compared.
validate_inputs_no_password(email, password, files) ==
    /\ is_valid_email(email)
    /\ files # <<>>

\* validate_inputs(email, password, files): the list of errors is empty.
validate_inputs(email, password, files) ==
    /\ is_valid_email(email)
    /\ is_valid_password(password, PASSWORD)
    /\ files # <<>>

\* The handler ends; nothing else of its state changes.
Finish(how) ==
    /\ pc' = "done"
    /\ finished' = how

\* if st.button("Upload"): errors = validate_inputs(email, password, files)
Validate ==
    /\ pc = "validate"
    /\ IF validate_inputs(form_email, form_password, form_files)
       THEN pc' = "read" /\ UNCHANGED finished
       ELSE Finish("invalid")
    /\ UNCHANGED <<callVars, runVars, pageVars, sessVars, authVars, form_email, form_password, form_files, file_idx,
                   user_folder_id, user_folder_txts, listing, file_id,
                   successful_uploads, shown, stored, readRow, drive0,
                   ledgerWrites, ledgerVars, storeVars, csvVars>>

\* Faulty variant: the status of the record is not looked at.
cleanup_required_any_record(df, email) == RowsOf(df, email) # <<>>

\* cleanup_required = not existing_record.empty and
\*                    existing_record["status"].iloc[0] != "Ready"
cleanup_required(df, email) ==
    RowsOf(df, email) # <<>> /\ RowsOf(df, email)[1].status # "Ready"

\* workListFile = read_csv_from_drive("workListFile.csv", DocsToProcess_id)
\* and the lookup of the email's row.  A None returned by the read makes the
\* lookup workListFile[workListFile["email"] == email] raise TypeError, which
\* the handler's except clause reports.
ReadLedger ==
    /\ pc = "read"
    /\ \E l \in Listings(ChildrenOf(drive, DocsToProcess_id)) :
           LET r == read_csv_from_drive(drive, l, LedgerFileName)
           IN IF r.none
              THEN /\ Finish("TypeError")
                   /\ UNCHANGED <<workListFile, readRow>>
              ELSE /\ workListFile' = r.df
                   /\ readRow' = IF RowsOf(r.df, form_email) = <<>> THEN "absent"
                                 ELSE RowsOf(r.df, form_email)[1].status
                   /\ pc' = IF cleanup_required(r.df, form_email)
                            THEN "cleanup_orig" ELSE "folder_orig"
                   /\ UNCHANGED finished
    /\ UNCHANGED <<callVars, runVars, pageVars, sessVars, authVars, form_email, form_password, form_files, file_idx,
                   user_folder_id, user_folder_txts, listing, file_id,
                   successful_uploads, shown, stored, drive0, ledgerWrites,
                   status, before, passed, lastEmail, lastName, prevStatus,
                   prevEmail, nCalls, storeVars, csvVars>>

\* delete_user_folder_if_exists(FOLDER_ID["DocsOrig_id"], name), then the
\* same under DocsToProcess.
Cleanup(at, parent, then) ==
    /\ pc = at
    /\ drive' = delete_user_folder_if_exists(drive, parent, UserName(form_email))
    /\ pc' = then
    /\ UNCHANGED <<callVars, runVars, pageVars, sessVars, authVars, form_email, form_password, form_files, file_idx,
                   user_folder_id, user_folder_txts, listing, file_id,
                   successful_uploads, finished, shown, stored, readRow,
                   drive0, ledgerWrites, nextId, ledgerVars, csvVars>>

CleanupOrig == Cleanup("cleanup_orig", DocsOrig_id, "cleanup_proc")

CleanupProc == Cleanup("cleanup_proc", DocsToProcess_id, "folder_orig")

\* create_folder_if_not_exists(folder_name, parent_folder_id): the handle of
\* a folder of that name directly under the parent if there is one, else the
\* handle of a folder created there.
create_folder_if_not_exists(parent, folder_name, id) ==
    IF FoldersNamed(drive, folder_name, parent) # {}
    THEN /\ id \in FoldersNamed(drive, folder_name, parent)
         /\ UNCHANGED storeVars
    ELSE /\ id = nextId
         /\ drive' = (nextId :> Obj(parent, folder_name, FolderMime, <<>>))
                         @@ drive
         /\ nextId' = nextId + 1

\* user_folder_id = create_folder_if_not_exists(name, DocsOrig_id)
FolderOrig ==
    /\ pc = "folder_orig"
    /\ \E id \in (DOMAIN drive) \cup {nextId} :
           /\ create_folder_if_not_exists(DocsOrig_id, UserName(form_email), id)
           /\ user_folder_id' = id
    /\ pc' = "folder_proc"
    /\ UNCHANGED <<callVars, runVars, pageVars, sessVars, authVars, form_email, form_password, form_files, file_idx,
                   user_folder_txts, listing, file_id, successful_uploads,
                   finished, shown, stored, readRow, drive0, ledgerWrites,
                   ledgerVars, csvVars>>

\* user_folder_txts = create_folder_if_not_exists(name, DocsToProcess_id);
\* successful_uploads = False
FolderProc ==
    /\ pc = "folder_proc"
    /\ \E id \in (DOMAIN drive) \cup {nextId} :
           /\ create_folder_if_not_exists(DocsToProcess_id,
                                          UserName(form_email), id)
           /\ user_folder_txts' = id
    /\ successful_uploads' = FALSE
    /\ file_idx' = 1
    /\ pc' = "loop"
    /\ UNCHANGED <<callVars, runVars, pageVars, sessVars, authVars, form_email, form_password, form_files, user_folder_id,
                   listing, file_id, finished, shown, stored, readRow, drive0,
                   ledgerWrites, ledgerVars, csvVars>>

\* What the handler leaves alone while it works on one file.
FormUnchanged ==
    UNCHANGED <<callVars, runVars, pageVars, sessVars, authVars, form_email, form_password, form_files, user_folder_id,
                user_folder_txts, readRow, drive0>>

\* for file in files: final_filename, txt_filename,
\* status, workListFile = update_observation(workListFile, txt_filename, email)
\* and, on Denied, st.error(...) and the next file.
LoopFile ==
    /\ pc = "loop"
    /\ file_idx <= Len(form_files)
    /\ LET name == UserName(form_email)
           r == update_observation(
                    workListFile, TxtFilename(name, form_files[file_idx]),
                    form_email)
       IN /\ workListFile' = r.df
          /\ status' = r.status
          /\ before' = workListFile
          /\ passed' = r.arg
          /\ lastEmail' = form_email
          /\ lastName' = TxtFilename(name, form_files[file_idx])
          /\ prevStatus' = status
          /\ prevEmail' = lastEmail
          /\ nCalls' = nCalls + 1
          /\ IF r.status = Denied
             THEN /\ shown' = Append(shown, "denied")
                  /\ stored' = Append(stored, FALSE)
                  /\ file_idx' = file_idx + 1
                  /\ pc' = "loop"
             ELSE /\ pc' = "upload_list"
                  /\ UNCHANGED <<shown, stored, file_idx>>
    /\ FormUnchanged
    /\ UNCHANGED <<listing, file_id, successful_uploads, finished,
                   ledgerWrites, storeVars, csvVars>>

\* upload_file: the listing of the files of that name in the user's folder.
\* An exception in upload_file is logged and None is returned.
UploadFileList(outcome) ==
    /\ pc = "upload_list"
    /\ IF outcome = "ok"
       THEN /\ listing' = FilesNamed(drive,
                              FinalFilename(UserName(form_email),
                                            form_files[file_idx]),
                              user_folder_id)
            /\ pc' = "upload_delete"
            /\ UNCHANGED file_id
       ELSE /\ file_id' = 0
            /\ pc' = "extract"
            /\ UNCHANGED listing
    /\ FormUnchanged
    /\ UNCHANGED <<file_idx, successful_uploads, finished, shown, stored,
                   ledgerWrites, ledgerVars, storeVars, csvVars>>

\* upload_file: for f in existing_files: f.Delete()
UploadFileDelete ==
    /\ pc = "upload_delete"
    /\ drive' = Without(drive, listing)
    /\ pc' = "upload_create"
    /\ FormUnchanged
    /\ UNCHANGED <<file_idx, listing, file_id, successful_uploads, finished,
                   shown, stored, ledgerWrites, nextId, ledgerVars, csvVars>>

\* upload_file: CreateFile, SetContentFile, Upload, return file['id']; an
\* exception is logged and None is returned.
UploadFileCreate(outcome) ==
    /\ pc = "upload_create"
    /\ IF outcome = "ok"
       THEN /\ drive' = (nextId :> Obj(user_folder_id,
                                       FinalFilename(UserName(form_email),
                                                     form_files[file_idx]),
                                       "application/pdf",
                                       form_files[file_idx])) @@ drive
            /\ nextId' = nextId + 1
            /\ file_id' = nextId
       ELSE /\ file_id' = 0
            /\ UNCHANGED storeVars
    /\ pc' = "extract"
    /\ FormUnchanged
    /\ UNCHANGED <<file_idx, listing, successful_uploads, finished, shown,
                   stored, ledgerWrites, ledgerVars, csvVars>>

\* The text extract_text_and_upload builds from the PDF.
ExtractedText(fname) == <<"t", "e", "x", "t", ":">> \o fname

\* extract_text_and_upload: pymupdf.open and the reading of the pages, then
\* the listing of the files of that name in the user's text folder.  An
\* exception is logged and raised again, and ends the handler in its except
\* clause.
ExtractText(outcome) ==
    /\ pc = "extract"
    /\ IF outcome = "ok"
       THEN /\ listing' = FilesNamed(drive,
                              FinalFilename(UserName(form_email),
                                            form_files[file_idx]),
                              user_folder_txts)
            /\ pc' = "txt_delete"
            /\ UNCHANGED finished
       ELSE /\ Finish("ExtractionError")
            /\ UNCHANGED listing
    /\ FormUnchanged
    /\ UNCHANGED <<file_idx, file_id, successful_uploads, shown, stored,
                   ledgerWrites, ledgerVars, storeVars, csvVars>>

\* extract_text_and_upload: for f in existing_files: f.Delete()
TxtDelete ==
    /\ pc = "txt_delete"
    /\ drive' = Without(drive, listing)
    /\ pc' = "txt_create"
    /\ FormUnchanged
    /\ UNCHANGED <<file_idx, listing, file_id, successful_uploads, finished,
                   shown, stored, ledgerWrites, nextId, ledgerVars, csvVars>>

\* extract_text_and_upload: CreateFile, SetContentString, Upload; then in the
\* handler st.success(...) and successful_uploads = True.
TxtCreate(outcome) ==
    /\ pc = "txt_create"
    /\ IF outcome = "ok"
       THEN /\ drive' = (nextId :> Obj(user_folder_txts,
                                       FinalFilename(UserName(form_email),
                                                     form_files[file_idx]),
                                       "text/plain",
                                       ExtractedText(form_files[file_idx])))
                            @@ drive
            /\ nextId' = nextId + 1
            /\ shown' = Append(shown, "success")
            /\ stored' = Append(stored, file_id # 0)
            /\ successful_uploads' = TRUE
            /\ file_idx' = file_idx + 1
            /\ pc' = "loop"
            /\ UNCHANGED finished
       ELSE /\ Finish("StoreError")
            /\ UNCHANGED <<storeVars, shown, stored, successful_uploads,
                           file_idx>>
    /\ FormUnchanged
    /\ UNCHANGED <<listing, file_id, ledgerWrites, ledgerVars, csvVars>>

\* After the loop: if successful_uploads, update_csv_from_df_retry(
\* workListFile, "workListFile.csv", DocsToProcess_id) is called.
LoopEnd ==
    /\ pc = "loop"
    /\ file_idx > Len(form_files)
    /\ IF successful_uploads
       THEN /\ pc' = "csv"
            /\ csv_pc' = "list"
            /\ csv_df' = workListFile
            /\ ledgerWrites' = ledgerWrites + 1
            /\ UNCHANGED finished
       ELSE /\ Finish("ok")
            /\ UNCHANGED <<csv_pc, csv_df, ledgerWrites>>
    /\ FormUnchanged
    /\ UNCHANGED <<file_idx, listing, file_id, successful_uploads, shown,
                   stored, existing_files, retry_count, csv_log, csv_result,
                   ledgerVars, storeVars>>

\* Faulty variant: when the ledger write raised, the user's folders are
\* removed with what the submission uploaded.
CsvDone_rollback ==
    /\ pc = "csv"
    /\ csv_pc \in {"returned", "raised"}
    /\ Finish(IF csv_result.exc = "none" THEN "ok" ELSE csv_result.exc)
    /\ drive' = IF csv_result.exc = "none" THEN drive
                ELSE delete_user_folder_if_exists(
                         delete_user_folder_if_exists(
                             drive, DocsOrig_id, UserName(form_email)),
                         DocsToProcess_id, UserName(form_email))
    /\ FormUnchanged
    /\ UNCHANGED <<file_idx, listing, file_id, successful_uploads, shown,
                   stored, ledgerWrites, ledgerVars, nextId, csvVars>>

\* update_csv_from_df_retry has returned (st.info) or raised (except clause).
CsvDone ==
    /\ pc = "csv"
    /\ csv_pc \in {"returned", "raised"}
    /\ Finish(IF csv_result.exc = "none" THEN "ok" ELSE csv_result.exc)
    /\ FormUnchanged
    /\ UNCHANGED <<file_idx, listing, file_id, successful_uploads, shown,
                   stored, ledgerWrites, ledgerVars, storeVars, csvVars>>

\* An email the pattern rejects.
EmailNoDot == <<"c", "@", "x">>

\* The batches of files a form can hold.
RECURSIVE Batches(_)
Batches(n) ==
    IF n = 0 THEN {<<>>}
    ELSE Batches(n - 1) \cup
         {Append(b, f) : b \in {x \in Batches(n - 1) : Len(x) = n - 1},
                         f \in FileNames}

\* The ledgers the store may hold when a submission begins: for each email no
\* row, a row in Process or a row marked Ready by the downstream processing.
RowChoices(e) ==
    {<<>>} \cup {<<Record(TxtFilename(UserName(e), <<"p">>), e, s)>> :
                    s \in {"Process", "Ready"}}

StoredLedgers ==
    {a \o b \o c : a \in RowChoices(EmailAB), b \in RowChoices(EmailAb),
                   c \in RowChoices(EmailC)}

\* A store with the given objects, in the order of their ids.
DriveOf(objs) == [i \in FirstId..(FirstId + Len(objs) - 1) |->
                     objs[i - FirstId + 1]]

\* The user folders of the given name under both roots.
UserFolders(name) ==
    <<Obj(DocsOrig_id, name, FolderMime, <<>>),
      Obj(DocsToProcess_id, name, FolderMime, <<>>)>>

\* The PDF and the text of file "p" of the user of the given name, in the
\* folders with the given ids.
Artifacts(name, orig, txts) ==
    <<Obj(orig, FinalFilename(name, <<"p">>), "application/pdf", <<"p">>),
      Obj(txts, FinalFilename(name, <<"p">>), "text/plain",
          ExtractedText(<<"p">>))>>

\* The stores a submission may find: the user folders of earlier submissions
\* cleaned up, present and empty, or present with the artifacts of a file
\* "p"; and the ledger file absent or holding a ledger.
ProvisionedDrives ==
    {DriveOf(f \o l) :
        l \in {<<>>} \cup {<<Obj(DocsToProcess_id, LedgerFileName, "text/csv",
                                 df)>> : df \in StoredLedgers},
        f \in {<<>>,
               UserFolders(UserName(EmailAB)) \o UserFolders(UserName(EmailC)),
               UserFolders(UserName(EmailAB)) \o UserFolders(UserName(EmailC))
                   \o Artifacts(UserName(EmailAB), FirstId, FirstId + 1)
                   \o Artifacts(UserName(EmailC), FirstId + 2, FirstId + 3)}}

\* A form filled in and the Upload button pressed.
InitSubmit ==
    /\ LedgerIdle
    /\ CsvIdle
    /\ drive \in ProvisionedDrives
    /\ nextId = FirstId + Cardinality(DOMAIN drive)
    /\ pc = "validate"
    /\ form_email \in Emails \cup {EmailNoDot}
    /\ form_password \in {PASSWORD, "guess"}
    /\ form_files \in Batches(MaxFiles)
    /\ file_idx = 0
    /\ user_folder_id = 0
    /\ user_folder_txts = 0
    /\ listing = {}
    /\ file_id = 0
    /\ successful_uploads = FALSE
    /\ finished = "none"
    /\ shown = <<>>
    /\ stored = <<>>
    /\ readRow = "none"
    /\ drive0 = drive
    /\ ledgerWrites = 0
    /\ CallsIdle
    /\ RunIdle
    /\ PageIdle
    /\ SessIdle
    /\ AuthIdle

\* The destination of the ledger write exists whenever the handler gets to
\* write it (a ledger that cannot be read ends the handler), so the creating
\* branch of update_csv_from_df_retry is not among the steps.
NextSubmit ==
    \/ Validate
    \/ ReadLedger
    \/ CleanupOrig
    \/ CleanupProc
    \/ FolderOrig
    \/ FolderProc
    \/ LoopFile
    \/ \E outcome \in {"ok", "error"} : UploadFileList(outcome)
    \/ UploadFileDelete
    \/ \E outcome \in {"ok", "error"} : UploadFileCreate(outcome)
    \/ \E outcome \in {"ok", "error"} : ExtractText(outcome)
    \/ TxtDelete
    \/ \E outcome \in {"ok", "error"} : TxtCreate(outcome)
    \/ LoopEnd
    \/ CsvStep
    \/ CsvDone

SpecSubmit == InitSubmit /\ [][NextSubmit]_vars

\* ------------------------------------------- upload_file, called on its own

\* The folder the calls write to, a user's folder under DocsOrig, and the
\* user's folder under DocsToProcess.
WriteFolder == FirstId

TextFolder == FirstId + 1

\* The name the calls write, and another name of the same user.
WriteName == FinalFilename(UserName(EmailC), <<"p">>)

OtherName == FinalFilename(UserName(EmailC), <<"q">>)

Digit == <<"1", "2", "3", "4", "5">>

\* The bytes call c uploads.
WriteContent(c) == <<"v", Digit[c]>>

\* n files of the written name in the written folder.
Copies(n) == [i \in 1..n |-> Obj(WriteFolder, WriteName, "application/pdf",
                                 <<"p">>)]

\* upload_file: existing_files = self.drive.ListFile({'q': query}).GetList()
WriteList(c) ==
    /\ op_pc[c] = "list"
    /\ \E l \in Listings(FilesNamed(drive, WriteName, WriteFolder)) :
           /\ op_listing' = [op_listing EXCEPT ![c] = l]
           /\ op_pc' = [op_pc EXCEPT ![c] = IF l = <<>> THEN "create"
                                             ELSE "delete"]
    /\ UNCHANGED <<op_result, storeVars, ledgerVars, csvVars, handlerVars,
                   runVars, pageVars, sessVars, authVars>>

\* upload_file: for f in existing_files: f.Delete(), one file per step.  The
\* store refuses to delete a file that is gone; the exception is logged and
\* the call returns None.
WriteDelete(c) ==
    /\ op_pc[c] = "delete"
    /\ IF Head(op_listing[c]) \in DOMAIN drive
       THEN /\ drive' = Without(drive, {Head(op_listing[c])})
            /\ op_listing' = [op_listing EXCEPT ![c] = Tail(op_listing[c])]
            /\ op_pc' = [op_pc EXCEPT ![c] = IF Tail(op_listing[c]) = <<>>
                                              THEN "create" ELSE "delete"]
            /\ UNCHANGED op_result
       ELSE /\ op_pc' = [op_pc EXCEPT ![c] = "done"]
            /\ op_result' = [op_result EXCEPT ![c] = Returned(0)]
            /\ UNCHANGED <<drive, op_listing>>
    /\ UNCHANGED <<nextId, ledgerVars, csvVars, handlerVars, runVars, pageVars, sessVars, authVars>>

\* upload_file: CreateFile, SetContentFile, Upload, return file['id']; an
\* exception is logged and None is returned.
WriteCreate(c, outcome) ==
    /\ op_pc[c] = "create"
    /\ IF outcome = "ok"
       THEN /\ drive' = (nextId :> Obj(WriteFolder, WriteName,
                                       "application/pdf", WriteContent(c)))
                            @@ drive
            /\ nextId' = nextId + 1
            /\ op_result' = [op_result EXCEPT ![c] = Returned(nextId)]
       ELSE /\ op_result' = [op_result EXCEPT ![c] = Returned(0)]
            /\ UNCHANGED storeVars
    /\ op_pc' = [op_pc EXCEPT ![c] = "done"]
    /\ UNCHANGED <<op_listing, ledgerVars, csvVars, handlerVars, runVars, pageVars, sessVars, authVars>>

\* MaxWriters calls upload_file(path, WriteName, WriteFolder) made by as many
\* sessions, on a folder holding 0..MaxCopies files of that name, with or
\* without a file of another name beside them and a file of that name in
\* another folder.
InitWrite ==
    /\ LedgerIdle
    /\ CsvIdle
    /\ \E n \in 0..MaxCopies,
          x \in {<<>>, <<Obj(WriteFolder, OtherName, "application/pdf",
                             <<"q">>)>>},
          y \in {<<>>, <<Obj(TextFolder, WriteName, "text/plain",
                             ExtractedText(<<"p">>))>>} :
           /\ drive = DriveOf(UserFolders(UserName(EmailC)) \o x \o y
                                  \o Copies(n))
           /\ nextId = FirstId + 2 + Len(x) + Len(y) + n
    /\ HandlerIdle
    /\ op_pc = [c \in Calls |-> "list"]
    /\ op_listing = [c \in Calls |-> <<>>]
    /\ op_result = [c \in Calls |-> NoResult]
    /\ RunIdle
    /\ PageIdle
    /\ SessIdle
    /\ AuthIdle

NextWrite ==
    \/ \E c \in Calls : WriteList(c)
    \/ \E c \in Calls : WriteDelete(c)
    \/ \E c \in Calls, outcome \in {"ok", "error"} : WriteCreate(c, outcome)

SpecWrite == InitWrite /\ [][NextWrite]_vars

\* ---------------------------------- get_or_create_folder, called in sequence

\* The folder the GoogleDriveFolder object stands for (self.folder_id) and
\* the user name asked for.
FolderParent == DocsOrig_id

FolderName == UserName(EmailC)

\* get_or_create_folder: folder_list = self.drive.ListFile({'q': query})
\* .GetList(); if folder_list: return folder_list[0]['id'].  A call begins
\* when no other call is under way.  An exception is logged and None is
\* returned.
FolderList(c, outcome) ==
    /\ op_pc[c] = "wait"
    /\ \A d \in Calls \ {c} : op_pc[d] \in {"wait", "done"}
    /\ IF outcome = "ok"
       THEN \E l \in Listings(FoldersNamed(drive, FolderName, FolderParent)) :
                /\ op_listing' = [op_listing EXCEPT ![c] = l]
                /\ IF l # <<>>
                   THEN /\ op_pc' = [op_pc EXCEPT ![c] = "done"]
                        /\ op_result' = [op_result EXCEPT ![c] = Returned(l[1])]
                   ELSE /\ op_pc' = [op_pc EXCEPT ![c] = "create"]
                        /\ UNCHANGED op_result
       ELSE /\ op_pc' = [op_pc EXCEPT ![c] = "done"]
            /\ op_result' = [op_result EXCEPT ![c] = Returned(0)]
            /\ UNCHANGED op_listing
    /\ UNCHANGED <<storeVars, ledgerVars, csvVars, handlerVars, runVars, pageVars, sessVars, authVars>>

\* create_folder(user_name): CreateFile with the folder content type and
\* self.folder_id as parent, Upload, return folder['id']; an exception is
\* logged and None is returned.
FolderCreate(c, outcome) ==
    /\ op_pc[c] = "create"
    /\ IF outcome = "ok"
       THEN /\ drive' = (nextId :> Obj(FolderParent, FolderName, FolderMime,
                                       <<>>)) @@ drive
            /\ nextId' = nextId + 1
            /\ op_result' = [op_result EXCEPT ![c] = Returned(nextId)]
       ELSE /\ op_result' = [op_result EXCEPT ![c] = Returned(0)]
            /\ UNCHANGED storeVars
    /\ op_pc' = [op_pc EXCEPT ![c] = "done"]
    /\ UNCHANGED <<op_listing, ledgerVars, csvVars, handlerVars, runVars, pageVars, sessVars, authVars>>

\* MaxWriters calls get_or_create_folder(FolderName) to come, on a store
\* where the folder exists or not, with or without a file of that name beside
\* it, a folder of that name under the other root and a folder of another
\* name under the same root.
InitFolder ==
    /\ LedgerIdle
    /\ CsvIdle
    /\ \E a \in {<<>>, <<Obj(FolderParent, FolderName, FolderMime, <<>>)>>},
          b \in {<<>>, <<Obj(FolderParent, FolderName, "application/pdf",
                             <<"p">>)>>},
          e \in {<<>>, <<Obj(DocsToProcess_id, FolderName, FolderMime,
                             <<>>)>>},
          f \in {<<>>, <<Obj(FolderParent, UserName(EmailAB), FolderMime,
                             <<>>)>>} :
           /\ drive = DriveOf(b \o e \o f \o a)
           /\ nextId = FirstId + Len(a) + Len(b) + Len(e) + Len(f)
    /\ HandlerIdle
    /\ op_pc = [c \in Calls |-> "wait"]
    /\ op_listing = [c \in Calls |-> <<>>]
    /\ op_result = [c \in Calls |-> NoResult]
    /\ RunIdle
    /\ PageIdle
    /\ SessIdle
    /\ AuthIdle

NextFolder ==
    \/ \E c \in Calls, outcome \in {"ok", "error"} : FolderList(c, outcome)
    \/ \E c \in Calls, outcome \in {"ok", "error"} : FolderCreate(c, outcome)

SpecFolder == InitFolder /\ [][NextFolder]_vars

\* ------------------------------------- read_csv_from_drive, called on its own

\* What a call of read_csv_from_drive gave: None or a frame, and the
\* exception that left the call.
ReadResult(r, exc) == [none |-> r.none, df |-> r.df, exc |-> exc]

\* The objects DocsToProcess may hold when the ledger is read: the ledger
\* file under either accepted content type, a file of its name of another
\* content type, a user's folder and a user's text artifact.
ReadCandidates ==
    <<Obj(DocsToProcess_id, LedgerFileName, "text/csv",
          <<Record(TxtFilename(UserName(EmailC), <<"p">>), EmailC, "Process")>>),
      Obj(DocsToProcess_id, LedgerFileName, "application/vnd.ms-excel",
          <<Record(TxtFilename(UserName(EmailC), <<"q">>), EmailC, "Ready")>>),
      Obj(DocsToProcess_id, LedgerFileName,
          "application/vnd.google-apps.spreadsheet",
          <<Record(TxtFilename(UserName(EmailAB), <<"p">>), EmailAB, "Ready")>>),
      Obj(DocsToProcess_id, UserName(EmailC), FolderMime, <<>>),
      Obj(DocsOrig_id, LedgerFileName, "text/csv", <<>>)>>

\* The subsequences of s.
RECURSIVE SubSeqs(_)
SubSeqs(s) ==
    IF s = <<>> THEN {<<>>}
    ELSE LET rest == SubSeqs(Tail(s))
         IN rest \cup {<<Head(s)>> \o t : t \in rest}

\* read_csv_from_drive("workListFile.csv", DocsToProcess_id) from the listing
\* of the folder to the return.  Whatever is raised on the way (by the
\* listing, which then gives None, by GetContentString or by pd.read_csv) is
\* caught and logged, and None is returned.
ReadCsv(c, outcome) ==
    /\ op_pc[c] = "read"
    /\ \E l \in Listings(ChildrenOf(drive, DocsToProcess_id)) :
           /\ op_listing' = [op_listing EXCEPT ![c] = l]
           /\ op_result' =
                  [op_result EXCEPT ![c] =
                      IF outcome = "ok"
                      THEN ReadResult(read_csv_from_drive(drive, l,
                                                          LedgerFileName),
                                      "none")
                      ELSE ReadResult([none |-> TRUE, df |-> <<>>], "none")]
    /\ op_pc' = [op_pc EXCEPT ![c] = "done"]
    /\ UNCHANGED <<storeVars, ledgerVars, csvVars, handlerVars, runVars, pageVars, sessVars, authVars>>

InitRead ==
    /\ LedgerIdle
    /\ CsvIdle
    /\ \E objs \in SubSeqs(ReadCandidates) :
           /\ drive = DriveOf(objs)
           /\ nextId = FirstId + Len(objs)
    /\ HandlerIdle
    /\ op_pc = [c \in Calls |-> "read"]
    /\ op_listing = [c \in Calls |-> <<>>]
    /\ op_result = [c \in Calls |->
                       ReadResult([none |-> TRUE, df |-> <<>>], "none")]
    /\ RunIdle
    /\ PageIdle
    /\ SessIdle
    /\ AuthIdle

NextRead == \E c \in Calls, outcome \in {"ok", "error"} : ReadCsv(c, outcome)

SpecRead == InitRead /\ [][NextRead]_vars

\* ------------------------------------------------- a submission made again

\* The Upload button is pressed again on the same form once the handler has
\* ended: the script runs anew, with nothing left of the first run but what
\* it did to the store.
Resubmit ==
    /\ pc = "done"
    /\ run = 1
    /\ finished # "invalid"
    /\ run' = 2
    /\ run1' = [drive |-> drive, finished |-> finished, shown |-> shown,
                stored |-> stored]
    /\ pc' = "validate"
    /\ file_idx' = 0
    /\ user_folder_id' = 0
    /\ user_folder_txts' = 0
    /\ listing' = {}
    /\ file_id' = 0
    /\ successful_uploads' = FALSE
    /\ finished' = "none"
    /\ shown' = <<>>
    /\ stored' = <<>>
    /\ readRow' = "none"
    /\ ledgerWrites' = 0
    /\ workListFile' = <<>>
    /\ status' = "none"
    /\ before' = <<>>
    /\ passed' = <<>>
    /\ lastEmail' = <<>>
    /\ lastName' = <<>>
    /\ prevStatus' = "none"
    /\ prevEmail' = <<>>
    /\ nCalls' = 0
    /\ csv_pc' = "idle"
    /\ csv_df' = <<>>
    /\ existing_files' = <<>>
    /\ retry_count' = 0
    /\ csv_log' = <<>>
    /\ csv_result' = NoResult
    /\ UNCHANGED <<form_email, form_password, form_files, drive0, storeVars,
                   callVars, pageVars, sessVars, authVars>>

\* The batches submitted twice.
ResubmitBatches == {<<<<"q">>>>, <<<<"p">>, <<"q">>>>}

\* The stores a submission by email e that is not Ready may find: its row
\* absent or in Process, the row of another email absent or Ready, and the
\* user folders absent, empty or holding the artifacts of a file "p".
ResubmitDrives(e) ==
    {DriveOf(f \o <<Obj(DocsToProcess_id, LedgerFileName, "text/csv",
                        a \o b)>>) :
        a \in {<<>>, <<Record(TxtFilename(UserName(EmailAb), <<"p">>),
                              EmailAb, "Ready")>>},
        b \in {<<>>, <<Record(TxtFilename(UserName(e), <<"p">>), e,
                              "Process")>>},
        f \in {<<>>,
               UserFolders(UserName(EmailAB)) \o UserFolders(UserName(EmailC)),
               UserFolders(UserName(EmailAB)) \o UserFolders(UserName(EmailC))
                   \o Artifacts(UserName(EmailAB), FirstId, FirstId + 1)
                   \o Artifacts(UserName(EmailC), FirstId + 2, FirstId + 3)}}

\* A valid form of an email that is not Ready, submitted and then submitted
\* again.
InitResubmit ==
    /\ LedgerIdle
    /\ CsvIdle
    /\ form_email \in {EmailAB, EmailC}
    /\ drive \in ResubmitDrives(form_email)
    /\ nextId = FirstId + Cardinality(DOMAIN drive)
    /\ pc = "validate"
    /\ form_password = PASSWORD
    /\ form_files \in ResubmitBatches
    /\ file_idx = 0
    /\ user_folder_id = 0
    /\ user_folder_txts = 0
    /\ listing = {}
    /\ file_id = 0
    /\ successful_uploads = FALSE
    /\ finished = "none"
    /\ shown = <<>>
    /\ stored = <<>>
    /\ readRow = "none"
    /\ drive0 = drive
    /\ ledgerWrites = 0
    /\ CallsIdle
    /\ RunIdle
    /\ PageIdle
    /\ SessIdle
    /\ AuthIdle

NextResubmit ==
    \/ NextSubmit
    \/ Resubmit

SpecResubmit == InitResubmit /\ [][NextResubmit]_vars

\* ------------------------------ extract_text_and_upload: the order of a page

\* fcluster(Z, t=50, criterion='distance')
cut_threshold == 50

\* The blocks a page is made of, (x0, y0, x1, y1, text) without x1 and y1,
\* which are not used: a left column at x about 0, two of its blocks at the
\* same height, and a right column at x = 500.
AllBlocks ==
    <<[x0 |-> 0, y0 |-> 10, text |-> "A"], [x0 |-> 0, y0 |-> 20, text |-> "B"],
      [x0 |-> 0, y0 |-> 30, text |-> "C"], [x0 |-> 10, y0 |-> 10, text |-> "T"],
      [x0 |-> 500, y0 |-> 15, text |-> "X"],
      [x0 |-> 500, y0 |-> 25, text |-> "Y"]>>

\* Faulty variant: the blocks are left in the order given.
SortByTop_unsorted(s) == s

\* sorted(block_data, key=lambda b: b[1]): a stable sort by top coordinate.
RECURSIVE SortByTop(_)
SortByTop(s) ==
    IF s = <<>> THEN <<>>
    ELSE LET rest == SortByTop(SubSeq(s, 1, Len(s) - 1))
             b == s[Len(s)]
             k == Cardinality({i \in 1..Len(rest) : rest[i].y0 <= b.y0})
         IN SubSeq(rest, 1, k) \o <<b>> \o SubSeq(rest, k + 1, Len(rest))

\* The sum of the left edges of the blocks of a cluster.
RECURSIVE SumX(_)
SumX(c) ==
    IF c = {} THEN 0
    ELSE LET i == CHOOSE j \in c : TRUE
         IN block_data[i].x0 + SumX(c \ {i})

\* Ward's distance between clusters a and b of points on a line is
\* sqrt(2nm/(n+m)) |mean(a) - mean(b)|; its square is num / den.
Ward(a, b) ==
    [num |-> 2 * (SumX(a) * Cardinality(b) - SumX(b) * Cardinality(a))
               * (SumX(a) * Cardinality(b) - SumX(b) * Cardinality(a)),
     den |-> Cardinality(a) * Cardinality(b)
               * (Cardinality(a) + Cardinality(b))]

\* The pairs of clusters at a distance of at most the threshold.
Mergeable(cs) ==
    {pr \in cs \X cs :
        /\ pr[1] # pr[2]
        /\ Ward(pr[1], pr[2]).num
               <= cut_threshold * cut_threshold * Ward(pr[1], pr[2]).den}

\* Those of them at the least distance.
Nearest(cs) ==
    {pr \in Mergeable(cs) :
        \A qr \in Mergeable(cs) :
            Ward(pr[1], pr[2]).num * Ward(qr[1], qr[2]).den
                <= Ward(qr[1], qr[2]).num * Ward(pr[1], pr[2]).den}

\* mean x of a column below that of another, or equal with the column met
\* first in block_data (the dictionary keeps insertion order, sorted() is
\* stable).
ColumnBefore(a, b) ==
    \/ SumX(a) * Cardinality(b) < SumX(b) * Cardinality(a)
    \/ /\ SumX(a) * Cardinality(b) = SumX(b) * Cardinality(a)
       /\ \E i \in a : \A j \in a \cup b : i <= j

\* sorted_columns
RECURSIVE SortedColumns(_)
SortedColumns(cs) ==
    IF cs = {} THEN <<>>
    ELSE LET c == CHOOSE a \in cs : \A b \in cs : ColumnBefore(a, b)
         IN <<c>> \o SortedColumns(cs \ {c})

\* ordered_text.extend([b[4] for b in column_dict[col]]) for each column,
\* the column sorted by top coordinate.
RECURSIVE Flatten(_)
Flatten(cols) ==
    IF cols = <<>> THEN <<>>
    ELSE LET col == SortByTop(SelectSeq(
                        [i \in 1..Len(block_data) |->
                            [i |-> i, y0 |-> block_data[i].y0]],
                        LAMBDA e : e.i \in Head(cols)))
         IN [k \in 1..Len(col) |-> block_data[col[k].i].text]
                \o Flatten(Tail(cols))

\* block_data = sorted(...); Z = linkage(x_positions, method='ward').  With
\* one block linkage has no distance to work on and raises ValueError.
SortBlocks ==
    /\ col_pc = "sort"
    /\ block_data' = SortByTop(text_blocks)
    /\ IF Len(text_blocks) = 1
       THEN col_pc' = "raised" /\ UNCHANGED columns
       ELSE /\ col_pc' = "cluster"
            /\ columns' = {{i} : i \in 1..Len(text_blocks)}
    /\ UNCHANGED <<page, text_blocks, ordered_text, ledgerVars, storeVars,
                   csvVars, handlerVars, callVars, runVars, sessVars, authVars>>

\* One merge of the linkage: two clusters at the least distance become one.
\* The merges made at a distance above the threshold are undone by fcluster
\* and are not made here.
MergeColumns ==
    /\ col_pc = "cluster"
    /\ \E pr \in Nearest(columns) :
           columns' = (columns \ {pr[1], pr[2]}) \cup {pr[1] \cup pr[2]}
    /\ UNCHANGED <<col_pc, page, text_blocks, block_data, ordered_text,
                   ledgerVars, storeVars, csvVars, handlerVars, callVars,
                   runVars, sessVars, authVars>>

\* column_dict, sorted_columns, ordered_text
OrderText ==
    /\ col_pc = "cluster"
    /\ Mergeable(columns) = {}
    /\ ordered_text' = Flatten(SortedColumns(columns))
    /\ col_pc' = "done"
    /\ UNCHANGED <<page, text_blocks, block_data, columns, ledgerVars,
                   storeVars, csvVars, handlerVars, callVars, runVars, sessVars, authVars>>

\* A page of 1..MaxBlocks blocks, given by the PDF in any order.
InitColumns ==
    /\ LedgerIdle
    /\ CsvIdle
    /\ drive = EmptyDrive
    /\ nextId = FirstId
    /\ HandlerIdle
    /\ CallsIdle
    /\ RunIdle
    /\ SessIdle
    /\ AuthIdle
    /\ col_pc = "sort"
    /\ page \in {p \in SubSeqs(AllBlocks) : Len(p) >= 1 /\ Len(p) <= MaxBlocks}
    /\ text_blocks \in {[i \in 1..Len(page) |-> page[l[i]]] :
                            l \in Listings(1..Len(page))}
    /\ block_data = <<>>
    /\ columns = {}
    /\ ordered_text = <<>>

NextColumns ==
    \/ SortBlocks
    \/ MergeColumns
    \/ OrderText

SpecColumns == InitColumns /\ [][NextColumns]_vars

\* ------------------------------------- the submit handler in two sessions

Goto(s, at) == s_pc' = [s_pc EXCEPT ![s] = at]

\* The handler of session s ends, reporting how.
End(s, how) ==
    /\ s_pc' = [s_pc EXCEPT ![s] = "done"]
    /\ s_end' = [s_end EXCEPT ![s] = how]

\* name = re.sub(r'[^a-zA-Z0-9]', '', email.split('@')[0]);
\* final_filename = f"{name}_{file.name}"
SessionFilename(s) == FinalFilename(UserName(s_email[s]), s_file[s])

\* workListFile = read_csv_from_drive(...); cleanup_required
SessionRead(s) ==
    /\ s_pc[s] = "read"
    /\ \E l \in Listings(ChildrenOf(drive, DocsToProcess_id)) :
           LET r == read_csv_from_drive(drive, l, LedgerFileName)
           IN IF r.none
              THEN End(s, "TypeError") /\ UNCHANGED s_df
              ELSE /\ s_df' = [s_df EXCEPT ![s] = r.df]
                   /\ Goto(s, IF cleanup_required(r.df, s_email[s])
                              THEN "cleanup_orig" ELSE "folder_orig")
                   /\ UNCHANGED s_end
    /\ UNCHANGED <<s_email, s_file, s_orig, s_txts, s_listing, s_retry,
                   s_success, storeVars>>
    /\ UNCHANGED <<ledgerVars, csvVars, handlerVars, callVars, runVars,
                   pageVars, authVars>>

\* delete_user_folder_if_exists(parent, name)
SessionCleanup(s, at, parent, then) ==
    /\ s_pc[s] = at
    /\ drive' = delete_user_folder_if_exists(drive, parent, UserName(s_email[s]))
    /\ Goto(s, then)
    /\ UNCHANGED <<s_email, s_file, s_df, s_orig, s_txts, s_listing, s_retry,
                   s_success, s_end, nextId>>
    /\ UNCHANGED <<ledgerVars, csvVars, handlerVars, callVars, runVars,
                   pageVars, authVars>>

\* user_folder_id = create_folder_if_not_exists(name, DocsOrig_id)
SessionFolderOrig(s) ==
    /\ s_pc[s] = "folder_orig"
    /\ \E id \in (DOMAIN drive) \cup {nextId} :
           /\ create_folder_if_not_exists(DocsOrig_id, UserName(s_email[s]), id)
           /\ s_orig' = [s_orig EXCEPT ![s] = id]
    /\ Goto(s, "folder_proc")
    /\ UNCHANGED <<s_email, s_file, s_df, s_txts, s_listing, s_retry,
                   s_success, s_end>>
    /\ UNCHANGED <<ledgerVars, csvVars, handlerVars, callVars, runVars,
                   pageVars, authVars>>

\* user_folder_txts = create_folder_if_not_exists(name, DocsToProcess_id)
SessionFolderProc(s) ==
    /\ s_pc[s] = "folder_proc"
    /\ \E id \in (DOMAIN drive) \cup {nextId} :
           /\ create_folder_if_not_exists(DocsToProcess_id, UserName(s_email[s]), id)
           /\ s_txts' = [s_txts EXCEPT ![s] = id]
    /\ Goto(s, "loop")
    /\ UNCHANGED <<s_email, s_file, s_df, s_orig, s_listing, s_retry,
                   s_success, s_end>>
    /\ UNCHANGED <<ledgerVars, csvVars, handlerVars, callVars, runVars,
                   pageVars, authVars>>

\* status, workListFile = update_observation(workListFile, txt_filename,
\* email); on Denied the loop is over and, nothing being uploaded, so is the
\* handler.
SessionEvaluate(s) ==
    /\ s_pc[s] = "loop"
    /\ LET r == update_observation(s_df[s],
                                   TxtFilename(UserName(s_email[s]), s_file[s]),
                                   s_email[s])
       IN /\ s_df' = [s_df EXCEPT ![s] = r.df]
          /\ IF r.status = Denied
             THEN End(s, "ok")
             ELSE Goto(s, "upload_list") /\ UNCHANGED s_end
    /\ UNCHANGED <<s_email, s_file, s_orig, s_txts, s_listing, s_retry,
                   s_success, storeVars>>
    /\ UNCHANGED <<ledgerVars, csvVars, handlerVars, callVars, runVars,
                   pageVars, authVars>>

\* existing_files = self.drive.ListFile({'q': query}).GetList(), in
\* upload_file and in extract_text_and_upload: the listing of the files of
\* the session's name in folder.  Of a folder that is gone the store lists
\* nothing or refuses the query.
SessionList(s, at, folder, found, none, refused) ==
    /\ s_pc[s] = at
    /\ \/ \E l \in Listings(FilesNamed(drive, SessionFilename(s), folder)) :
              /\ s_listing' = [s_listing EXCEPT ![s] = l]
              /\ Goto(s, IF l = <<>> THEN none ELSE found)
              /\ UNCHANGED s_end
       \/ /\ folder \notin DOMAIN drive
          /\ refused
          /\ UNCHANGED s_listing
    /\ UNCHANGED <<s_email, s_file, s_df, s_orig, s_txts, s_retry, s_success,
                   storeVars>>
    /\ UNCHANGED <<ledgerVars, csvVars, handlerVars, callVars, runVars,
                   pageVars, authVars>>

\* for f in existing_files: f.Delete(), in upload_file and in
\* extract_text_and_upload, one file per step; the store refuses to delete a
\* file that is gone.
SessionDelete(s, at, then, refused) ==
    /\ s_pc[s] = at
    /\ IF Head(s_listing[s]) \in DOMAIN drive
       THEN /\ drive' = Without(drive, {Head(s_listing[s])})
            /\ s_listing' = [s_listing EXCEPT ![s] = Tail(s_listing[s])]
            /\ Goto(s, IF Tail(s_listing[s]) = <<>> THEN then ELSE at)
            /\ UNCHANGED s_end
       ELSE /\ refused
            /\ UNCHANGED <<drive, s_listing>>
    /\ UNCHANGED <<s_email, s_file, s_df, s_orig, s_txts, s_retry, s_success,
                   nextId>>
    /\ UNCHANGED <<ledgerVars, csvVars, handlerVars, callVars, runVars,
                   pageVars, authVars>>

\* upload_file logs an exception and returns None: the handler goes on with
\* extract_text_and_upload.
UploadRefused(s) == Goto(s, "txt_list") /\ UNCHANGED s_end

\* upload_file: CreateFile, SetContentFile, Upload; the store refuses a file
\* whose parent is gone, the exception is logged and None is returned.
SessionUploadCreate(s) ==
    /\ s_pc[s] = "upload_create"
    /\ IF s_orig[s] \in DOMAIN drive
       THEN /\ drive' = (nextId :> Obj(s_orig[s], SessionFilename(s),
                                       "application/pdf", s_file[s])) @@ drive
            /\ nextId' = nextId + 1
       ELSE UNCHANGED storeVars
    /\ Goto(s, "txt_list")
    /\ UNCHANGED <<s_email, s_file, s_df, s_orig, s_txts, s_listing, s_retry,
                   s_success, s_end>>
    /\ UNCHANGED <<ledgerVars, csvVars, handlerVars, callVars, runVars,
                   pageVars, authVars>>

\* extract_text_and_upload: CreateFile, SetContentString, Upload; then
\* st.success(...), successful_uploads = True and, the loop being over, the
\* call of update_csv_from_df_retry.
SessionTxtCreate(s) ==
    /\ s_pc[s] = "txt_create"
    /\ IF s_txts[s] \in DOMAIN drive
       THEN /\ drive' = (nextId :> Obj(s_txts[s], SessionFilename(s),
                                       "text/plain", ExtractedText(s_file[s])))
                            @@ drive
            /\ nextId' = nextId + 1
            /\ s_success' = [s_success EXCEPT ![s] = TRUE]
            /\ Goto(s, "csv_list")
            /\ UNCHANGED s_end
       ELSE /\ End(s, "StoreError")
            /\ UNCHANGED <<storeVars, s_success>>
    /\ UNCHANGED <<s_email, s_file, s_df, s_orig, s_txts, s_listing, s_retry>>
    /\ UNCHANGED <<ledgerVars, csvVars, handlerVars, callVars, runVars,
                   pageVars, authVars>>

\* update_csv_from_df_retry: existing_files = ...GetList(); retry_count = 0.
\* The ledger file is there: the handler has read it and nothing removes it.
SessionCsvList(s) ==
    /\ s_pc[s] = "csv_list"
    /\ \E l \in Listings(FilesNamed(drive, LedgerFileName, DocsToProcess_id)) :
           /\ l # <<>>
           /\ s_listing' = [s_listing EXCEPT ![s] = l]
    /\ s_retry' = [s_retry EXCEPT ![s] = 0]
    /\ Goto(s, "csv_upload")
    /\ UNCHANGED <<s_email, s_file, s_df, s_orig, s_txts, s_success, s_end,
                   storeVars>>
    /\ UNCHANGED <<ledgerVars, csvVars, handlerVars, callVars, runVars,
                   pageVars, authVars>>

\* update_csv_from_df_retry: file.SetContentFile(...); file.Upload(), which
\* writes the whole frame of the session; on a conflict retry_count += 1,
\* time.sleep(2 ** retry_count), file.FetchMetadata() and the next turn of
\* the loop; another error is raised again.
SessionCsvUpload(s, outcome) ==
    /\ s_pc[s] = "csv_upload"
    /\ RetryAllowed(s_retry[s])
    /\ IF outcome = "ok"
       THEN /\ drive' = [drive EXCEPT ![s_listing[s][1]].content = s_df[s]]
            /\ Goto(s, "csv_dedupe")
            /\ UNCHANGED <<s_retry, s_end>>
       ELSE IF IsConflict(outcome)
       THEN /\ s_retry' = [s_retry EXCEPT ![s] = s_retry[s] + 1]
            /\ UNCHANGED <<drive, s_pc, s_end>>
       ELSE /\ End(s, "Error")
            /\ UNCHANGED <<drive, s_retry>>
    /\ UNCHANGED <<s_email, s_file, s_df, s_orig, s_txts, s_listing,
                   s_success, nextId>>
    /\ UNCHANGED <<ledgerVars, csvVars, handlerVars, callVars, runVars,
                   pageVars, authVars>>

\* The while loop's else: raise Exception("Max retries reached. ...")
SessionCsvMaxRetries(s) ==
    /\ s_pc[s] = "csv_upload"
    /\ ~RetryAllowed(s_retry[s])
    /\ End(s, "MaxRetries")
    /\ UNCHANGED <<s_email, s_file, s_df, s_orig, s_txts, s_listing, s_retry,
                   s_success, storeVars>>
    /\ UNCHANGED <<ledgerVars, csvVars, handlerVars, callVars, runVars,
                   pageVars, authVars>>

\* for duplicate in existing_files[1:]: duplicate.Delete(); return; st.info
SessionCsvDedupe(s) ==
    /\ s_pc[s] = "csv_dedupe"
    /\ drive' = Without(drive, Duplicates(s_listing[s]))
    /\ End(s, "ok")
    /\ UNCHANGED <<s_email, s_file, s_df, s_orig, s_txts, s_listing, s_retry,
                   s_success, nextId>>
    /\ UNCHANGED <<ledgerVars, csvVars, handlerVars, callVars, runVars,
                   pageVars, authVars>>

\* Two valid forms, the Upload button pressed in both sessions: two emails
\* or the same email, the same file or two files.  The store holds the
\* ledger file with at most one row for each of the emails, and the user
\* folders are absent or present with the artifacts of a file "p".
InitConcurrent ==
    /\ LedgerIdle
    /\ CsvIdle
    /\ \E e \in {<<EmailAB, EmailC>>, <<EmailC, EmailC>>},
          f \in {<<<<"p">>, <<"p">>>>, <<<<"p">>, <<"q">>>>} :
           /\ s_email = [s \in Sessions |-> e[s]]
           /\ s_file = [s \in Sessions |-> f[s]]
           /\ \E df \in IF e[1] = e[2] THEN RowChoices(e[1])
                         ELSE {a \o b : a \in RowChoices(e[1]),
                                        b \in RowChoices(e[2])},
                 u \in {<<>>,
                        UserFolders(UserName(EmailAB))
                            \o UserFolders(UserName(EmailC))
                            \o Artifacts(UserName(EmailAB), FirstId + 1,
                                         FirstId + 2)
                            \o Artifacts(UserName(EmailC), FirstId + 3,
                                         FirstId + 4)} :
                  drive = DriveOf(<<Obj(DocsToProcess_id, LedgerFileName,
                                        "text/csv", df)>> \o u)
    /\ nextId = FirstId + Cardinality(DOMAIN drive)
    /\ HandlerIdle
    /\ CallsIdle
    /\ RunIdle
    /\ PageIdle
    /\ AuthIdle
    /\ s_pc = [s \in Sessions |-> "read"]
    /\ s_df = [s \in Sessions |-> <<>>]
    /\ s_orig = [s \in Sessions |-> 0]
    /\ s_txts = [s \in Sessions |-> 0]
    /\ s_listing = [s \in Sessions |-> <<>>]
    /\ s_retry = [s \in Sessions |-> 0]
    /\ s_success = [s \in Sessions |-> FALSE]
    /\ s_end = [s \in Sessions |-> "none"]

NextConcurrent ==
    \/ \E s \in Sessions : SessionRead(s)
    \/ \E s \in Sessions :
           SessionCleanup(s, "cleanup_orig", DocsOrig_id, "cleanup_proc")
    \/ \E s \in Sessions :
           SessionCleanup(s, "cleanup_proc", DocsToProcess_id, "folder_orig")
    \/ \E s \in Sessions : SessionFolderOrig(s)
    \/ \E s \in Sessions : SessionFolderProc(s)
    \/ \E s \in Sessions : SessionEvaluate(s)
    \/ \E s \in Sessions :
           SessionList(s, "upload_list", s_orig[s], "upload_delete",
                       "upload_create", UploadRefused(s))
    \/ \E s \in Sessions :
           SessionDelete(s, "upload_delete", "upload_create", UploadRefused(s))
    \/ \E s \in Sessions : SessionUploadCreate(s)
    \/ \E s \in Sessions :
           SessionList(s, "txt_list", s_txts[s], "txt_delete", "txt_create",
                       End(s, "StoreError"))
    \/ \E s \in Sessions :
           SessionDelete(s, "txt_delete", "txt_create", End(s, "StoreError"))
    \/ \E s \in Sessions : SessionTxtCreate(s)
    \/ \E s \in Sessions : SessionCsvList(s)
    \/ \E s \in Sessions, outcome \in UploadOutcomes :
           SessionCsvUpload(s, outcome)
    \/ \E s \in Sessions : SessionCsvMaxRetries(s)
    \/ \E s \in Sessions : SessionCsvDedupe(s)

SpecConcurrent == InitConcurrent /\ [][NextConcurrent]_vars

\* ------------------------------------- authenticate_with_retries, start-up

\* def authenticate_with_retries(max_retries=3)
auth_max_retries == 3

\* time.sleep(2)
auth_delay == 2

\* The exceptions GoogleDriveFolder(...) may raise.
AuthErrors == {"ValueError", "KeyError", "TransportError"}

\* Faulty variant: one attempt more.
InRange_one_more(n) == n <= auth_max_retries + 1

\* for attempt in range(1, max_retries + 1)
InRange(n) == n <= auth_max_retries

\* if "gdrive" not in st.session_state: authenticate_with_retries()
StartUp ==
    /\ a_pc = "start"
    /\ IF gdrive
       THEN a_pc' = "ui" /\ UNCHANGED attempt
       ELSE a_pc' = "try" /\ attempt' = 1
    /\ UNCHANGED <<a_log, gdrive, handled, ledgerVars, storeVars, csvVars,
                   handlerVars, callVars, runVars, pageVars, sessVars>>

\* st.session_state.gdrive = GoogleDriveFolder(...); return True, or the
\* except branch up to st.warning(...).
AuthAttempt(outcome) ==
    /\ a_pc = "try"
    /\ InRange(attempt)
    /\ a_log' = Append(a_log, Logged("attempt", outcome, attempt))
    /\ IF outcome = "ok"
       THEN gdrive' = TRUE /\ a_pc' = "ui"
       ELSE a_pc' = "sleep" /\ UNCHANGED gdrive
    /\ UNCHANGED <<attempt, handled, ledgerVars, storeVars, csvVars,
                   handlerVars, callVars, runVars, pageVars, sessVars>>

\* The range is exhausted: st.error(...); return False; st.stop()
AuthGiveUp ==
    /\ a_pc = "try"
    /\ ~InRange(attempt)
    /\ a_log' = Append(a_log, Logged("error", "failed", 0))
    /\ a_pc' = "stopped"
    /\ UNCHANGED <<attempt, gdrive, handled, ledgerVars, storeVars, csvVars,
                   handlerVars, callVars, runVars, pageVars, sessVars>>

\* time.sleep(2) and the next turn of the for loop
AuthSleep ==
    /\ a_pc = "sleep"
    /\ a_log' = Append(a_log, Logged("sleep", "ok", auth_delay))
    /\ attempt' = attempt + 1
    /\ a_pc' = "try"
    /\ UNCHANGED <<gdrive, handled, ledgerVars, storeVars, csvVars,
                   handlerVars, callVars, runVars, pageVars, sessVars>>

\* The rest of the script: the form is shown and, when Upload was pressed
\* on valid inputs, the submission is processed.
RunScript(pressed) ==
    /\ a_pc = "ui"
    /\ handled' = pressed
    /\ a_pc' = "done"
    /\ UNCHANGED <<attempt, a_log, gdrive, ledgerVars, storeVars, csvVars,
                   handlerVars, callVars, runVars, pageVars, sessVars>>

\* A script run begins, in a new session or in one that has authenticated.
InitAuth ==
    /\ LedgerIdle
    /\ CsvIdle
    /\ drive = EmptyDrive
    /\ nextId = FirstId
    /\ HandlerIdle
    /\ CallsIdle
    /\ RunIdle
    /\ PageIdle
    /\ SessIdle
    /\ a_pc = "start"
    /\ attempt = 0
    /\ a_log = <<>>
    /\ gdrive \in BOOLEAN
    /\ handled = FALSE

NextAuth ==
    \/ StartUp
    \/ \E outcome \in {"ok"} \cup AuthErrors : AuthAttempt(outcome)
    \/ AuthGiveUp
    \/ AuthSleep
    \/ \E pressed \in BOOLEAN : RunScript(pressed)

\* The script runs on: no step of it waits for anything.
SpecAuth == InitAuth /\ [][NextAuth]_vars /\ WF_vars(NextAuth)

\* ---------------------------------------------------- ledger engine harness

\* A caller holding any ledger of the data model, before its first call.
InitLedger ==
    /\ workListFile \in Ledgers(CandidateNames, Statuses)
    /\ status = "none"
    /\ before = <<>>
    /\ passed = <<>>
    /\ lastEmail = <<>>
    /\ lastName = <<>>
    /\ prevStatus = "none"
    /\ prevEmail = <<>>
    /\ nCalls = 0
    /\ drive = EmptyDrive
    /\ nextId = FirstId
    /\ CsvIdle
    /\ HandlerIdle
    /\ CallsIdle
    /\ RunIdle
    /\ PageIdle
    /\ SessIdle
    /\ AuthIdle

\* status, workListFile = update_observation(workListFile, txt_filename, email)
Evaluate(email, file_name) ==
    LET r == update_observation(workListFile, file_name, email)
    IN /\ nCalls < MaxCalls
       /\ workListFile' = r.df
       /\ status' = r.status
       /\ before' = workListFile
       /\ passed' = r.arg
       /\ lastEmail' = email
       /\ lastName' = file_name
       /\ prevStatus' = status
       /\ prevEmail' = lastEmail
       /\ nCalls' = nCalls + 1
       /\ UNCHANGED <<storeVars, csvVars, handlerVars, callVars, runVars, pageVars, sessVars, authVars>>

NextLedger == \E email \in Emails, file_name \in CandidateNames :
                  Evaluate(email, file_name)

SpecLedger == InitLedger /\ [][NextLedger]_vars

\* ------------------------------------------------- claims on the ledger engine

\* A call has been made and the ledger it was given held a row for its email
\* with the given property.
HadReady(df, email) ==
    \E i \in 1..Len(df) : df[i].email = email /\ df[i].status = "Ready"

HadNotReady(df, email) ==
    \E i \in 1..Len(df) : df[i].email = email /\ df[i].status # "Ready"

\* The positions at which two ledgers of the same length differ.
Differing(old, new) == {i \in 1..Len(old) : new[i] # old[i]}

\* C1: a call for an email whose row in the ledger (one row per email) is
\* Ready returns Denied, whatever the candidate name, and the returned ledger
\* equals the one passed: same rows, same order, same values.
C1_ReadyIsDenied ==
    (nCalls > 0 /\ HadReady(before, lastEmail))
        => /\ status = Denied
           /\ Len(workListFile) = Len(before)
           /\ \A i \in 1..Len(before) : workListFile[i] = before[i]

C1_Witness ==
    /\ nCalls > 0
    /\ HadReady(before, lastEmail)
    /\ Len(before) > 1
    /\ status = Denied

\* C2: a call for an email with no row returns AcceptedNew and the returned
\* ledger is the old one with exactly one row appended at the end, the row
\* {candidate name, email, Process}; every old row keeps its place and values.
C2_AbsentIsAppended ==
    (nCalls > 0 /\ RowsOf(before, lastEmail) = <<>>)
        => /\ status = AcceptedNew
           /\ Len(workListFile) = Len(before) + 1
           /\ workListFile[Len(workListFile)]
                  = [file_name |-> lastName, email |-> lastEmail,
                     status |-> "Process"]
           /\ \A i \in 1..Len(before) : workListFile[i] = before[i]

C2_Witness ==
    /\ nCalls > 0
    /\ RowsOf(before, lastEmail) = <<>>
    /\ Len(before) > 0
    /\ status = AcceptedNew

\* C3 as stated: on an overwrite exactly one row differs from the old ledger.
C3_ExactlyOneRowDiffers ==
    (nCalls > 0 /\ HadNotReady(before, lastEmail))
        => /\ status = AcceptedOverwrite
           /\ Len(workListFile) = Len(before)
           /\ Cardinality(Differing(before, workListFile)) = 1

\* C3, amended: a call for an email whose row has a status other than Ready
\* returns AcceptedOverwrite; the ledger keeps its length; the row of the
\* email holds the candidate name and Process; no row of another email
\* differs, so at most that one row differs (none when it already held the
\* candidate name and Process).
C3_NotReadyIsOverwritten ==
    (nCalls > 0 /\ HadNotReady(before, lastEmail))
        => /\ status = AcceptedOverwrite
           /\ Len(workListFile) = Len(before)
           /\ \A i \in 1..Len(before) :
                  IF before[i].email = lastEmail
                  THEN workListFile[i]
                           = [file_name |-> lastName, email |-> lastEmail,
                              status |-> "Process"]
                  ELSE workListFile[i] = before[i]
           /\ Cardinality(Differing(before, workListFile)) <= 1

C3_Witness ==
    /\ nCalls > 0
    /\ \E i \in 1..Len(before) :
           /\ before[i].email = lastEmail
           /\ before[i].status = "Failed"
           /\ before[i].file_name # lastName
    /\ Len(before) > 1
    /\ status = AcceptedOverwrite
    /\ Cardinality(Differing(before, workListFile)) = 1

\* C4: from a ledger with one row per email, every sequence of calls leaves
\* at most one row per email; a call for the email of an AcceptedNew call made
\* just before it returns AcceptedOverwrite and adds no row.
C4_OneRowPerEmail ==
    /\ UniqueEmails(workListFile)
    /\ (prevStatus = AcceptedNew /\ prevEmail = lastEmail)
           => (status = AcceptedOverwrite /\ Len(workListFile) = Len(before))

C4_Witness ==
    /\ prevStatus = AcceptedNew
    /\ prevEmail = lastEmail
    /\ status = AcceptedOverwrite
    /\ Len(workListFile) = Len(before)
    /\ UniqueEmails(workListFile)

\* Every Ready row of df is still in df2, same place, same values.
ReadyRowsKept(df, df2) ==
    \A i \in 1..Len(df) :
        df[i].status = "Ready" => (i <= Len(df2) /\ df2[i] = df[i])

\* C5: Ready is terminal.  Every call, for whatever email, leaves every Ready
\* row where it is with its status and file_name, and a call made for an email
\* whose row is Ready returns Denied; by induction this holds after any
\* sequence of calls.
C5_ReadyIsTerminal ==
    [][/\ ReadyRowsKept(workListFile, workListFile')
       /\ HadReady(workListFile, lastEmail') => status' = Denied]_vars

C5_Witness ==
    /\ nCalls = 2
    /\ prevStatus \in {AcceptedNew, AcceptedOverwrite}
    /\ prevEmail # lastEmail
    /\ HadReady(before, lastEmail)
    /\ status = Denied
    /\ HadReady(workListFile, lastEmail)

\* C6: for all three outcomes the ledger object the caller passed holds after
\* the call what it held before it.
C6_ArgumentUntouched == nCalls > 0 => passed = before

\* ------------------------------------------- claims on the ledger write retry

\* The outcomes of the upload attempts made so far, in order.
UploadResults == [i \in 1..Len(LogOf("upload")) |-> LogOf("upload")[i].res]

CsvEnded == csv_pc \in {"returned", "raised"}

\* C7: update_csv_from_df_retry on an existing destination (attempt budget
\* max_retries = 3).  It never makes more than 3 upload attempts and every
\* call ends: an unfinished call can always take a step and it logs at most 3
\* attempts, 3 waits and 3 refreshes.  A call all of whose attempts conflicted
\* has, once ended, made exactly 3 attempts and 3 backoff waits and raised the
\* max-retries exception.  A call whose 1st and 2nd attempts conflicted and
\* whose 3rd succeeded does not raise and returns the handle of the file.
C7_ThreeAttempts ==
    existing_files # <<>> =>
        /\ Len(LogOf("upload")) <= 3
        /\ Len(csv_log) <= 9
        /\ ~CsvEnded => ENABLED NextRetry
        /\ (CsvEnded /\ \A i \in 1..Len(UploadResults) :
                            UploadResults[i] = "conflict")
               => /\ Len(LogOf("upload")) = 3
                  /\ Len(LogOf("sleep")) = 3
                  /\ csv_pc = "raised"
                  /\ csv_result = Raised("MaxRetries")
        /\ UploadResults = <<"conflict", "conflict", "ok">>
               => /\ csv_pc \in {"dedupe", "returned"}
                  /\ csv_pc = "returned" => csv_result = Returned(existing_files[1])
        /\ csv_result = Raised("MaxRetries") => Len(LogOf("sleep")) = 3

C7_Witness ==
    /\ existing_files # <<>>
    /\ csv_pc = "raised"
    /\ csv_result = Raised("MaxRetries")
    /\ UploadResults = <<"conflict", "conflict", "conflict">>
    /\ Len(LogOf("sleep")) = 3

\* The second case of C7 is reached too.
C7_ThirdAttemptSucceeds ==
    /\ UploadResults = <<"conflict", "conflict", "ok">>
    /\ csv_pc = "returned"
    /\ csv_result = Returned(existing_files[1])

\* --------------------------------------------- claims on the submit handler

\* The store held no ledger file when the submission began.
LedgerAbsentAtStart == FilesNamed(drive0, LedgerFileName, DocsToProcess_id) = {}

\* The files the handler has marked as uploaded.
MarkedUploaded == {i \in 1..Len(shown) : shown[i] = "success"}

\* C8: in every submission update_csv_from_df_retry is called exactly once if
\* at least one file was accepted and uploaded and not at all if none was, and
\* the call comes after the loop has gone through every file.
C8_OneLedgerWritePerSubmission ==
    /\ ledgerWrites <= 1
    /\ ledgerWrites = 1 => file_idx = Len(form_files) + 1
    /\ pc = "done" => ledgerWrites = IF MarkedUploaded # {} THEN 1 ELSE 0

\* C9: a submission by an email whose ledger row is Ready has every file
\* denied and changes nothing in the store: no folder or file is created or
\* deleted and the ledger is not written.
C9_ReadySubmissionLeavesStoreAlone ==
    readRow = "Ready" =>
        /\ \A i \in 1..Len(shown) : shown[i] = "denied"
        /\ drive = drive0
        /\ ledgerWrites = 0

\* C10: with the ledger file absent a valid submission is handled as with an
\* empty ledger: its first file is evaluated (AcceptedNew) and, when the
\* handler reports no error, the store holds a ledger with the email's row.
C10_AbsentLedgerIsEmpty ==
    (LedgerAbsentAtStart /\ pc = "done" /\ finished # "invalid") =>
        /\ nCalls >= 1
        /\ finished = "ok" =>
               \E i \in FilesNamed(drive, LedgerFileName, DocsToProcess_id) :
                   RowsOf(drive[i].content, form_email) # <<>>

\* ------------------------------------------------------ claims on upload_file

\* The files of the written folder with the written name.
Written(d) ==
    {i \in DOMAIN d : /\ d[i].parent = WriteFolder
                      /\ d[i].title = WriteName
                      /\ d[i].mime # FolderMime}

\* C11: a call of upload_file that ran with no other call under way (no other
\* call has begun) and returned a handle: whatever number of files of the
\* name the folder held before, it now holds exactly one, the one returned,
\* with the content uploaded; every other object of the store, the files of
\* other names in the folder among them, is as it was, and nothing else was
\* created.
C11_WriteLeavesOneFile ==
    \A c \in Calls :
        (/\ op_pc[c] = "done"
         /\ op_result[c].id # 0
         /\ \A d \in Calls \ {c} : op_pc[d] = "list")
            => /\ Written(drive) = {op_result[c].id}
               /\ drive[op_result[c].id].content = WriteContent(c)
               /\ \A i \in DOMAIN drive0 \ Written(drive0) :
                      i \in DOMAIN drive /\ drive[i] = drive0[i]
               /\ DOMAIN drive \ DOMAIN drive0 = {op_result[c].id}

C11_Witness ==
    \E c \in Calls :
        /\ op_pc[c] = "done"
        /\ op_result[c].id # 0
        /\ \A d \in Calls \ {c} : op_pc[d] = "list"
        /\ Cardinality(Written(drive0)) = 2
        /\ \E i \in DOMAIN drive0 :
               drive0[i].parent = WriteFolder /\ drive0[i].title = OtherName
        /\ Written(drive) = {op_result[c].id}

\* C12: once every call of upload_file on the same name and folder has
\* ended, in whatever interleaving of their steps, the folder holds at most
\* one file of that name.
C12_NoDuplicateNames ==
    (\A c \in Calls : op_pc[c] = "done") => Cardinality(Written(drive)) <= 1

\* ------------------------------------- claims on the ledger write's destination

\* The files of DocsToProcess named workListFile.csv.
LedgerFiles(d) ==
    {i \in DOMAIN d : /\ d[i].parent = DocsToProcess_id
                      /\ d[i].title = LedgerFileName
                      /\ d[i].mime # FolderMime}

\* C13: update_csv_from_df_retry on a destination that exists: nothing is
\* ever created, at every moment of the call the folder holds a file of the
\* name, the file listed first is never deleted, and a call that returns
\* returns the handle of that file, which existed before the call and now
\* holds the frame.  A file is created only when the folder held none of the
\* name, and then the call returns the handle of the new file.
C13_UpdatedInPlace ==
    /\ LedgerFiles(drive0) # {} =>
           /\ DOMAIN drive \subseteq DOMAIN drive0
           /\ LedgerFiles(drive) # {}
           /\ existing_files # <<>> => existing_files[1] \in LedgerFiles(drive)
           /\ csv_pc = "returned" =>
                  /\ csv_result.id = existing_files[1]
                  /\ csv_result.id \in LedgerFiles(drive0)
                  /\ drive[csv_result.id].content = csv_df
    /\ (LedgerFiles(drive0) = {} /\ csv_pc = "returned") =>
           /\ csv_result.id \notin DOMAIN drive0
           /\ LedgerFiles(drive) = {csv_result.id}
           /\ drive[csv_result.id].content = csv_df
    /\ ~(DOMAIN drive \subseteq DOMAIN drive0) => LedgerFiles(drive0) = {}

C13_Witness ==
    /\ Cardinality(LedgerFiles(drive0)) = 2
    /\ csv_pc = "returned"
    /\ csv_result.id = existing_files[1]
    /\ LedgerFiles(drive) = {existing_files[1]}
    /\ csv_df # <<>>
    /\ drive[csv_result.id].content = csv_df
    /\ Len(LogOf("upload")) = 2

\* --------------------------------------------- claims on get_or_create_folder

\* The folders named FolderName directly under FolderParent.
UserFoldersIn(d) ==
    {i \in DOMAIN d : /\ d[i].parent = FolderParent
                      /\ d[i].title = FolderName
                      /\ d[i].mime = FolderMime}

\* The calls that have returned a handle.
Handled == {c \in Calls : op_pc[c] = "done" /\ op_result[c].id # 0}

\* C14: get_or_create_folder called any number of times in sequence, on a
\* store holding at most one folder of the name under the parent.  A call
\* that returns a handle returns the handle of the one folder of that name
\* under the parent; when the folder existed the handle is that of the
\* existing folder and the store is as it was; when it did not, exactly one
\* folder was created, under the parent, and nothing else changed; and all the
\* calls return the same handle.
C14_GetOrCreateIsIdempotent ==
    /\ \A c \in Handled :
           /\ UserFoldersIn(drive) = {op_result[c].id}
           /\ UserFoldersIn(drive0) # {} =>
                  (op_result[c].id \in UserFoldersIn(drive0) /\ drive = drive0)
           /\ UserFoldersIn(drive0) = {} =>
                  /\ DOMAIN drive = DOMAIN drive0 \cup {op_result[c].id}
                  /\ \A i \in DOMAIN drive0 : drive[i] = drive0[i]
    /\ \A c, d \in Handled : op_result[c].id = op_result[d].id
    /\ Cardinality(UserFoldersIn(drive)) <= 1

C14_Witness ==
    /\ Handled = Calls
    /\ UserFoldersIn(drive0) = {}
    /\ \E i \in DOMAIN drive0 :
           drive0[i].title = FolderName /\ drive0[i].mime # FolderMime
    /\ Cardinality(UserFoldersIn(drive)) = 1
    /\ \A c \in Calls : UserFoldersIn(drive) = {op_result[c].id}

\* ---------------------------------------------- claims on read_csv_from_drive

\* The files of DocsToProcess named workListFile.csv with an accepted CSV
\* content type.
LedgerCsvs(d) ==
    {i \in DOMAIN d : /\ d[i].parent = DocsToProcess_id
                      /\ d[i].title = LedgerFileName
                      /\ d[i].mime \in {"text/csv", "application/vnd.ms-excel"}}

\* C15: a call of read_csv_from_drive that has ended raised nothing; with the
\* folder empty or holding no file of the name with an accepted content type
\* it returned None; what it returned other than None is the content of such
\* a file; and the store is as it was.
C15_ReadReportsNotFound ==
    \A c \in Calls :
        op_pc[c] = "done" =>
            /\ op_result[c].exc = "none"
            /\ LedgerCsvs(drive) = {} => op_result[c].none
            /\ ~op_result[c].none =>
                   \E i \in LedgerCsvs(drive) : op_result[c].df = drive[i].content
            /\ drive = drive0
            /\ nextId = FirstId + Cardinality(DOMAIN drive0)

C15_Witness ==
    \E c \in Calls :
        /\ op_pc[c] = "done"
        /\ LedgerCsvs(drive) = {}
        /\ \E i \in DOMAIN drive : /\ drive[i].parent = DocsToProcess_id
                                   /\ drive[i].title = LedgerFileName
        /\ Len(op_listing[c]) > 1
        /\ op_result[c].none

\* The other case of C15 is reached too: a frame is returned.
C15_FrameReturned ==
    \E c \in Calls :
        /\ op_pc[c] = "done"
        /\ ~op_result[c].none
        /\ op_result[c].df # <<>>

\* ------------------------------------- claims on the submit handler's failures

\* C16: when the text extraction of one file of a submission fails, the files
\* after it are still evaluated (update_observation is called once per file
\* of the batch) and, when a file of the batch was uploaded, the ledger is
\* written.
C16_ExtractionFailureIsLocal ==
    (pc = "done" /\ finished = "ExtractionError") =>
        /\ nCalls = Len(form_files)
        /\ MarkedUploaded # {} => ledgerWrites = 1

\* The store holds, in folder, a file of the given title and content.
Holds(d, folder, title, content) ==
    \E i \in DOMAIN d : /\ d[i].parent = folder
                        /\ d[i].title = title
                        /\ d[i].mime # FolderMime
                        /\ d[i].content = content

\* The files of the batch that no later file of the batch shares its name with.
LastOfName ==
    {k \in 1..Len(form_files) :
        \A j \in (k + 1)..Len(form_files) : form_files[j] # form_files[k]}

\* C17: a submission whose ledger write raised the max-retries exception has
\* reported that exception; the ledger file of the store is the file it was
\* before the submission, with the same content; and for every file the
\* submission marked as uploaded the text written for it is in the user's
\* text folder and the PDF, when its upload returned a handle, is in the
\* user's folder (a file of the batch with the name of an earlier one is
\* written over it, so the PDF looked for is that of the last file of each
\* name).
C17_MaxRetriesKeepsUploads ==
    (pc = "done" /\ csv_result = Raised("MaxRetries")) =>
        /\ finished = "MaxRetries"
        /\ LedgerFiles(drive) = LedgerFiles(drive0)
        /\ \A i \in LedgerFiles(drive0) : drive[i] = drive0[i]
        /\ \A k \in MarkedUploaded :
               /\ Holds(drive, user_folder_txts,
                        FinalFilename(UserName(form_email), form_files[k]),
                        ExtractedText(form_files[k]))
               /\ (stored[k] /\ k \in LastOfName) =>
                      Holds(drive, user_folder_id,
                            FinalFilename(UserName(form_email), form_files[k]),
                            form_files[k])

C17_Witness ==
    /\ pc = "done"
    /\ csv_result = Raised("MaxRetries")
    /\ finished = "MaxRetries"
    /\ MarkedUploaded = {1, 2}
    /\ form_files[1] # form_files[2]
    /\ stored = <<TRUE, TRUE>>
    /\ LedgerFiles(drive0) # {}
    /\ \A i \in LedgerFiles(drive0) : drive[i] = drive0[i]
    /\ \A i \in LedgerFiles(drive0) : drive[i].content # workListFile

\* The form fails validation: the email does not match the pattern, or the
\* password is not the shared secret, or no file is attached.
InvalidForm ==
    \/ ~is_valid_email(form_email)
    \/ form_password # PASSWORD
    \/ form_files = <<>>

\* C18: a submission whose form fails validation ends at once with the
\* validation reported, and nothing is done to the store: the ledger is not
\* read or evaluated, no folder is looked up or created, nothing is uploaded
\* or deleted, the ledger is not written, and the store is as it was.
C18_InvalidTouchesNothing ==
    (pc # "validate" /\ InvalidForm) =>
        /\ pc = "done"
        /\ finished = "invalid"
        /\ drive = drive0
        /\ nextId = FirstId + Cardinality(DOMAIN drive0)
        /\ readRow = "none"
        /\ workListFile = <<>>
        /\ nCalls = 0
        /\ user_folder_id = 0
        /\ user_folder_txts = 0
        /\ shown = <<>>
        /\ csv_pc = "idle"
        /\ ledgerWrites = 0

C18_Witness ==
    /\ pc = "done"
    /\ finished = "invalid"
    /\ is_valid_email(form_email)
    /\ form_password # PASSWORD
    /\ Len(form_files) = 2
    /\ LedgerFiles(drive0) # {}
    /\ drive = drive0

\* The other two ways of failing validation are reached too.
C18_BadEmailOrNoFile ==
    /\ pc = "done"
    /\ finished = "invalid"
    /\ ~is_valid_email(form_email)
    /\ form_password = PASSWORD
    /\ form_files = <<>>

\* ------------------------------------------ claims on the names of artifacts

\* The titles of the files of the user's text folder.
TextTitles ==
    {drive[i].title : i \in {j \in DOMAIN drive :
                                 /\ drive[j].parent = user_folder_txts
                                 /\ drive[j].mime # FolderMime}}

\* C19: for every file of a submission marked as uploaded, the user's text
\* folder holds a file named key_f.txt (key: the local part of the email
\* without its non-alphanumeric characters, f: the name of the uploaded
\* file), and the name in the ledger row of the email is the name of a file
\* of that folder.
C19_LedgerNamesStoredText ==
    MarkedUploaded # {} =>
        /\ \A k \in MarkedUploaded :
               UserName(form_email) \o <<"_">> \o form_files[k]
                   \o <<".", "t", "x", "t">> \in TextTitles
        /\ \A i \in 1..Len(workListFile) :
               workListFile[i].email = form_email
                   => workListFile[i].file_name \in TextTitles

\* ------------------------------------------- claims on a submission made again

\* Where object i of store d is: its root folder and, for an object inside a
\* folder, the title of that folder.
Where(d, i) ==
    IF d[i].parent \in DOMAIN d
    THEN <<d[d[i].parent].parent, d[d[i].parent].title>>
    ELSE <<d[i].parent, <<>>>>

Alike(d1, i, d2, j) ==
    /\ d1[i].title = d2[j].title
    /\ d1[i].mime = d2[j].mime
    /\ Where(d1, i) = Where(d2, j)
    /\ d1[i].content = d2[j].content

\* Two stores hold the same objects in the same places, whatever the handles.
SameStore(d1, d2) ==
    /\ Cardinality(DOMAIN d1) = Cardinality(DOMAIN d2)
    /\ \A i \in DOMAIN d1 : \E j \in DOMAIN d2 : Alike(d1, i, d2, j)
    /\ \A j \in DOMAIN d2 : \E i \in DOMAIN d1 : Alike(d1, i, d2, j)

\* A run that ended with every file uploaded, PDF and text, and the ledger
\* written.
CleanRun(how, msgs, pdfs) ==
    /\ how = "ok"
    /\ Len(msgs) = Len(form_files)
    /\ \A k \in 1..Len(msgs) : msgs[k] = "success" /\ pdfs[k]

SecondRunEnded == run = 2 /\ pc = "done"

\* One folder of the user under each root, one file per name in each folder,
\* and one ledger file, with one row for the email, in Process.
OneOfEach ==
    /\ \A r \in {DocsOrig_id, DocsToProcess_id} :
           Cardinality({i \in DOMAIN drive :
                           /\ drive[i].parent = r
                           /\ drive[i].title = UserName(form_email)
                           /\ drive[i].mime = FolderMime}) = 1
    /\ \A i, j \in DOMAIN drive :
           (/\ drive[i].parent = drive[j].parent
            /\ drive[i].title = drive[j].title
            /\ drive[i].mime # FolderMime
            /\ drive[j].mime # FolderMime) => i = j
    /\ Cardinality(LedgerFiles(drive)) = 1
    /\ \A i \in LedgerFiles(drive) :
           /\ Len(RowsOf(drive[i].content, form_email)) = 1
           /\ RowsOf(drive[i].content, form_email)[1].status = "Process"

NoOtherFiles ==
    \A i \in DOMAIN drive0 :
        (/\ drive0[i].parent \in DOMAIN drive0
         /\ drive0[drive0[i].parent].title = UserName(form_email))
            => \E k \in 1..Len(form_files) :
                   drive0[i].title
                       = FinalFilename(UserName(form_email), form_files[k])

C20_RetryAfterFailure ==
    /\ SecondRunEnded
    /\ run1.finished = "MaxRetries"
    /\ finished = "ok"
    /\ OneOfEach

\* ------------------------------------------- claims on the order of a page

\* The blocks of the page more than the threshold to the right of its
\* leftmost block, and the others.
RightTexts ==
    {page[i].text : i \in {j \in 1..Len(page) :
        \E k \in 1..Len(page) : page[k].x0 + cut_threshold < page[j].x0}}

LeftTexts == {page[i].text : i \in 1..Len(page)} \ RightTexts

\* The page has a left and a right column.
TwoColumns == RightTexts # {}

\* The top coordinate of the block of the given text.
TopOf(t) == (CHOOSE b \in {page[i] : i \in 1..Len(page)} : b.text = t).y0

SameColumn(t, u) == (t \in RightTexts) = (u \in RightTexts)

\* Every text once, the left column before the right one, each column from
\* top to bottom.
ReadingOrder ==
    /\ Len(ordered_text) = Len(page)
    /\ {ordered_text[k] : k \in 1..Len(ordered_text)}
           = {page[i].text : i \in 1..Len(page)}
    /\ \A k, l \in 1..Len(ordered_text) :
           (ordered_text[k] \in LeftTexts /\ ordered_text[l] \in RightTexts)
               => k < l
    /\ \A k, l \in 1..Len(ordered_text) :
           (k < l /\ SameColumn(ordered_text[k], ordered_text[l]))
               => TopOf(ordered_text[k]) <= TopOf(ordered_text[l])

\* What the page gives when its blocks come in the order of AllBlocks: each
\* column's texts by top coordinate, blocks of the same height in the order
\* given.
TextOfPage ==
    LET blocks == {page[i] : i \in 1..Len(page)}
        Pos(b) == CHOOSE m \in 1..Len(page) : page[m] = b
        Upto(b) == {j \in 1..Len(page) :
                       \/ page[j].y0 < b.y0
                       \/ page[j].y0 = b.y0 /\ j <= Pos(b)}
        sorted == [k \in 1..Len(page) |->
                      (CHOOSE b \in blocks : Cardinality(Upto(b)) = k).text]
    IN SelectSeq(sorted, LAMBDA t : t \in LeftTexts)
           \o SelectSeq(sorted, LAMBDA t : t \in RightTexts)

\* C21 as stated: for a page of two columns, in whatever order the blocks
\* are given, the output holds every text once, the left column first, each
\* column from top to bottom, and is the output of every other order of the
\* same blocks.
C21_OrderIndependent ==
    (col_pc = "done" /\ TwoColumns) =>
        (ReadingOrder /\ ordered_text = TextOfPage)

\* No two blocks of one column have the same top coordinate.
DistinctTops ==
    \A i, j \in 1..Len(page) :
        (i # j /\ SameColumn(page[i].text, page[j].text))
            => page[i].y0 # page[j].y0

\* C21, amended: for a page of two columns the output holds every text once,
\* the left column first, each column from top to bottom; and when no two
\* blocks of a column have the same top coordinate it is the same for every
\* order of the blocks.
C21_ReadingOrder ==
    (col_pc = "done" /\ TwoColumns) =>
        /\ ReadingOrder
        /\ DistinctTops => ordered_text = TextOfPage
        /\ Cardinality(columns) = 2

C21_Witness ==
    /\ col_pc = "done"
    /\ page = <<AllBlocks[1], AllBlocks[2], AllBlocks[3], AllBlocks[5],
                AllBlocks[6]>>
    /\ text_blocks = <<AllBlocks[6], AllBlocks[3], AllBlocks[5],
                       AllBlocks[1], AllBlocks[2]>>
    /\ ordered_text = <<"A", "B", "C", "X", "Y">>

\* ------------------------------------------------- claims on the retry loop

\* The conflicts among the first i entries of the log.
ConflictsUpTo(i) ==
    Cardinality({j \in 1..i : /\ csv_log[j].op = "upload"
                              /\ csv_log[j].res = "conflict"})

\* C22: the wait after the k-th conflict lasts 2^k, and between two
\* consecutive upload attempts there is exactly one wait followed by one
\* refresh of the metadata: conflict, wait, refresh, retry.
C22_ConflictWaitRefreshRetry ==
    /\ \A i \in 1..Len(csv_log) :
           (csv_log[i].op = "upload" /\ i > 1) =>
               /\ i >= 4
               /\ csv_log[i - 1].op = "fetch"
               /\ csv_log[i - 2].op = "sleep"
               /\ csv_log[i - 2].t = 2 ^ ConflictsUpTo(i - 1)
               /\ csv_log[i - 3] = Logged("upload", "conflict", 0)
    /\ \A i \in 1..Len(csv_log) :
           csv_log[i].op = "sleep" =>
               /\ i > 1
               /\ csv_log[i - 1] = Logged("upload", "conflict", 0)
               /\ csv_log[i].t = 2 ^ ConflictsUpTo(i)
    /\ \A i \in 1..Len(csv_log) :
           csv_log[i].op = "fetch" => (i > 1 /\ csv_log[i - 1].op = "sleep")
    /\ csv_pc \in {"upload", "dedupe", "returned", "raised"} =>
           (csv_log # <<>> =>
               \/ csv_log[Len(csv_log)].op = "fetch"
               \/ /\ csv_log[Len(csv_log)].op = "upload"
                  /\ csv_log[Len(csv_log)].res # "conflict")

\* Two conflicts, waits of 2 and 4, and a third attempt.
C22_Witness ==
    /\ Len(csv_log) = 7
    /\ csv_log[2] = Logged("sleep", "ok", 2)
    /\ csv_log[3].op = "fetch"
    /\ csv_log[5] = Logged("sleep", "ok", 4)
    /\ csv_log[6].op = "fetch"
    /\ csv_log[7] = Logged("upload", "ok", 0)

\* C29: only a conflict is retried.  An upload refused with another error
\* ends the call at once: nothing is logged after it (no wait, no refresh,
\* no further attempt), the call raises, and what it raises is that error
\* and not the exhaustion of the retries.
C29_OtherErrorsPropagate ==
    /\ \A i \in 1..Len(csv_log) :
           (csv_log[i].op = "upload" /\ csv_log[i].res = "error") =>
               /\ i = Len(csv_log)
               /\ csv_pc = "raised"
               /\ csv_result = Raised("Error")
    /\ \A i \in 1..Len(csv_log) :
           (csv_log[i].op = "upload" /\ i < Len(csv_log)) =>
               csv_log[i].res = "conflict"
    /\ csv_result = Raised("MaxRetries") =>
           \A i \in 1..Len(csv_log) : csv_log[i].res # "error"

\* A conflict is retried and the second attempt is refused for another
\* reason.
C29_Witness ==
    /\ csv_pc = "raised"
    /\ Len(csv_log) = 4
    /\ csv_log[1] = Logged("upload", "conflict", 0)
    /\ csv_log[4] = Logged("upload", "error", 0)
    /\ csv_result = Raised("Error")

\* ------------------------------------------- claims on a write in progress

\* The files of the written name in the written folder, in store d.
NamedFiles(d) ==
    {i \in DOMAIN d : /\ d[i].parent = WriteFolder
                      /\ d[i].title = WriteName
                      /\ d[i].mime # FolderMime}

\* Call c replaces an existing file and no other call has begun.
ReplacesAlone(c) ==
    /\ NamedFiles(drive0) # {}
    /\ \A d \in Calls \ {c} : op_pc[d] = "list"

\* C30: a write that replaces an existing file is not atomic.  Between its
\* last Delete and its create the folder holds no file of that name, and
\* when the create fails the call ends with the old file gone and no new
\* file.
C30_ReplaceIsNotAtomic ==
    \A c \in Calls :
        ReplacesAlone(c) =>
            /\ op_pc[c] = "create" => NamedFiles(drive) = {}
            /\ (op_pc[c] = "done" /\ op_result[c] = Returned(0)) =>
                   /\ NamedFiles(drive) = {}
                   /\ NamedFiles(drive0) \cap DOMAIN drive = {}

\* The create step of a replacing write has failed.
C30_Witness ==
    \E c \in Calls :
        /\ ReplacesAlone(c)
        /\ op_pc[c] = "done"
        /\ op_result[c] = Returned(0)
        /\ NamedFiles(drive) = {}

\* The state in between: old file deleted, new file not yet created, seen
\* by a call that has not listed yet.
C30_NoFileInBetween ==
    \E c \in Calls :
        /\ ReplacesAlone(c)
        /\ op_pc[c] = "create"
        /\ NamedFiles(drive) = {}

\* ------------------------------------------- claims on the marking of a file

\* C26: a file is marked as uploaded only when its PDF and its text are in
\* the store, and the ledger is written only when the PDF of some file of
\* the submission was stored.
C26_MarkedOnlyIfStored ==
    /\ \A k \in 1..Len(shown) : shown[k] = "success" => stored[k]
    /\ ledgerWrites > 0 =>
           \E k \in 1..Len(shown) : shown[k] = "success" /\ stored[k]

\* ------------------------------------------- claims on a batch of files

\* The rows of the accumulated ledger that carry the email of the form.
RowsOfForm ==
    SelectSeq(workListFile, LAMBDA r : r.email = form_email)

\* C27: when the email of the form was not Ready in the ledger read, after
\* the k-th file of the batch has been evaluated the accumulated ledger holds
\* one record for the email, in Process, named after that k-th file; the
\* first file is accepted as new (no record was read) or as an overwrite (a
\* record in Process was read), every later file as an overwrite.  After the
\* last file the record names the last file of the batch.
C27_LastFileIsRecorded ==
    (readRow \in {"absent", "Process"} /\ nCalls >= 1) =>
        /\ RowsOfForm =
               <<[file_name |-> UserName(form_email) \o <<"_">>
                                    \o form_files[nCalls]
                                    \o <<".", "t", "x", "t">>,
                  email |-> form_email,
                  status |-> "Process"]>>
        /\ nCalls = 1 =>
               status = IF readRow = "absent" THEN AcceptedNew
                        ELSE AcceptedOverwrite
        /\ nCalls >= 2 => status = AcceptedOverwrite
        /\ nCalls <= Len(form_files)
        /\ (pc = "done" /\ finished \in {"ok", "MaxRetries", "Error"}) =>
               nCalls = Len(form_files)

\* Two different files by a new email: the first accepted as new, the second
\* as an overwrite, and the ledger written names the second only.
C27_Witness ==
    /\ pc = "done"
    /\ finished = "ok"
    /\ readRow = "absent"
    /\ Len(form_files) >= 2
    /\ form_files[1] # form_files[2]
    /\ nCalls = Len(form_files)
    /\ prevStatus = IF nCalls = 2 THEN AcceptedNew ELSE AcceptedOverwrite
    /\ status = AcceptedOverwrite
    /\ Len(RowsOfForm) = 1
    /\ RowsOfForm[1].file_name
           = TxtFilename(UserName(form_email), form_files[nCalls])

\* ------------------------------------------- claims on a Ready email

\* The positions of the handler inside the cleanup and inside the writes of
\* a file.
CleanupSteps == {"cleanup_orig", "cleanup_proc"}

WriteSteps == {"upload_list", "upload_delete", "upload_create", "extract",
               "txt_delete", "txt_create"}

\* C28: a submission that read a Ready record for its email deletes and
\* overwrites nothing: every object the store held when it began is still
\* there, unchanged, every file is denied and no write of a file is begun.
\* The cleanup runs only when the record read is in Process.
C28_ReadyIsNeverCleaned ==
    /\ readRow = "Ready" =>
           /\ \A i \in DOMAIN drive0 : i \in DOMAIN drive /\ drive[i] = drive0[i]
           /\ pc \notin CleanupSteps \cup WriteSteps
           /\ \A k \in 1..Len(shown) : shown[k] = "denied"
           /\ ledgerWrites = 0
    /\ pc \in CleanupSteps => readRow = "Process"

\* A Ready email with stored artifacts submits again and is denied.
C28_Witness ==
    /\ pc = "done"
    /\ readRow = "Ready"
    /\ Len(shown) >= 1
    /\ Len(shown) = Len(form_files)
    /\ \E i, j \in DOMAIN drive :
           /\ drive[i].mime = FolderMime
           /\ drive[i].title = UserName(form_email)
           /\ drive[j].parent = i
           /\ drive[j].mime = "application/pdf"

\* ------------------------------------------- claims on the isolation of users

\* The ledger the store held when the submission began.
LedgerBefore ==
    IF \E i \in DOMAIN drive0 : /\ drive0[i].parent = DocsToProcess_id
                                /\ drive0[i].title = LedgerFileName
                                /\ drive0[i].mime \in CsvMimes
    THEN drive0[CHOOSE i \in DOMAIN drive0 :
                    /\ drive0[i].parent = DocsToProcess_id
                    /\ drive0[i].title = LedgerFileName
                    /\ drive0[i].mime \in CsvMimes].content
    ELSE <<>>

\* Object i of the store the submission found is an artifact of another
\* email: a file in a user folder whose name the ledger records for an email
\* other than that of the form, the email of the form having no record.
StoredByOther(i) ==
    /\ drive0[i].mime # FolderMime
    /\ drive0[i].parent \in DOMAIN drive0
    /\ drive0[drive0[i].parent].mime = FolderMime
    /\ \A k \in 1..Len(LedgerBefore) : LedgerBefore[k].email # form_email
    /\ \E k \in 1..Len(LedgerBefore) :
           LedgerBefore[k].file_name = drive0[i].title \o <<".", "t", "x", "t">>

\* The folder of an artifact of another email.
FolderOfOther(i) ==
    \E j \in DOMAIN drive0 : StoredByOther(j) /\ drive0[j].parent = i

\* C25: a submission deletes, overwrites and replaces no artifact and no
\* folder stored by a submission of another email.
C25_OthersAreKept ==
    \A i \in DOMAIN drive0 :
        (StoredByOther(i) \/ FolderOfOther(i)) =>
            (i \in DOMAIN drive /\ drive[i] = drive0[i])

\* The same for an email whose user key no other email of the ledger shares.
C25_OtherKeysAreKept ==
    (\A k \in 1..Len(LedgerBefore) :
         UserName(LedgerBefore[k].email) # UserName(form_email)) =>
        C25_OthersAreKept

\* ------------------------------------------- claims on concurrent sessions

\* The ledger files of the store and the ledger a reader may get.
StoredLedgerIds ==
    {i \in DOMAIN drive : /\ drive[i].parent = DocsToProcess_id
                          /\ drive[i].title = LedgerFileName
                          /\ drive[i].mime \in CsvMimes}

\* The session reported its file as loaded and the ledger as updated.
ReportedSuccess(s) == s_pc[s] = "done" /\ s_end[s] = "ok" /\ s_success[s]

\* The emails of the two sessions differ and neither was in the ledger.
BothNew ==
    /\ s_email[1] # s_email[2]
    /\ \A k \in 1..Len(LedgerBefore) :
           LedgerBefore[k].email \notin {s_email[1], s_email[2]}

\* C23: when two sessions with distinct emails, neither in the stored
\* ledger, have both reported success, the stored ledger holds a record for
\* each of the two emails.
C23_NoLostUpdate ==
    (BothNew /\ \A s \in Sessions : ReportedSuccess(s)) =>
        \A i \in StoredLedgerIds : \A s \in Sessions :
            \E k \in 1..Len(drive[i].content) :
                drive[i].content[k].email = s_email[s]

\* C24: in every state the stored ledger has at most one row per email.
C24_OneRowPerEmail ==
    \A i \in StoredLedgerIds :
        \A k, l \in 1..Len(drive[i].content) :
            drive[i].content[k].email = drive[i].content[l].email => k = l

\* Two sessions of the same email, which had a record in Process, have both
\* written the ledger.
C24_Witness ==
    /\ s_email[1] = s_email[2]
    /\ LedgerBefore # <<>>
    /\ \A s \in Sessions : ReportedSuccess(s)
    /\ \E i \in StoredLedgerIds :
           /\ Len(drive[i].content) = 1
           /\ drive[i].content # LedgerBefore

\* ------------------------------------------- claims on the authentication

\* The positions in the log of the attempts, and of those that failed.
AttemptsMade == {i \in 1..Len(a_log) : a_log[i].op = "attempt"}

FailedAttempts == {i \in AttemptsMade : a_log[i].res # "ok"}

\* The start-up respects the bounded retry: at most 3 attempts; every failed
\* attempt is followed by one wait of 2 and nothing else before the next
\* attempt or the report of failure; the first attempt that succeeds is the
\* last entry, stores the handle and lets the script go on; failure is
\* reported only after exactly 3 failed attempts, and then the script is
\* stopped and processes no submission; no submission is processed without
\* a handle.
AuthIsBounded ==
    /\ Cardinality(AttemptsMade) <= 3
    /\ \A i \in FailedAttempts :
           /\ i < Len(a_log) => a_log[i + 1] = [op |-> "sleep", res |-> "ok",
                                                t |-> 2]
           /\ i + 1 < Len(a_log) => a_log[i + 2].op \in {"attempt", "error"}
    /\ \A i \in 1..Len(a_log) :
           a_log[i].op = "sleep" => (i > 1 /\ i - 1 \in FailedAttempts)
    /\ \A i \in AttemptsMade \ FailedAttempts :
           /\ i = Len(a_log)
           /\ gdrive
           /\ a_pc \in {"ui", "done"}
    /\ \A i \in 1..Len(a_log) :
           a_log[i].op = "error" =>
               /\ i = Len(a_log)
               /\ Cardinality(FailedAttempts) = 3
               /\ AttemptsMade = FailedAttempts
               /\ a_pc = "stopped"
    /\ a_pc = "stopped" =>
           /\ a_log # <<>>
           /\ a_log[Len(a_log)].op = "error"
           /\ ~gdrive
           /\ ~handled
    /\ handled => gdrive

C31_SecondAttemptSucceeds ==
    /\ a_pc = "done"
    /\ handled
    /\ Len(a_log) = 3
    /\ a_log[3] = Logged("attempt", "ok", 2)

====
